---- MODULE Spec2Model ----
(***************************************************************************)
(* Retrieval engine (searchIndex) and multi-phase search orchestrator      *)
(* (smartSearch) of ask-lenny's mcp-lennys-quotes server.                  *)
(*                                                                         *)
(* Conventions of the model:                                               *)
(*  - a string is a sequence of one-character strings, so that escaping,   *)
(*    joining, splitting and sorting are computed as the code computes     *)
(*    them;                                                                *)
(*  - a score or a minScore is an integer number of hundredths;            *)
(*  - a selected index is an integer number of halves (3 stands for 1.5),  *)
(*    because selected_indices is an array of arbitrary numbers;           *)
(*  - an episode is referred to by its position in Corpus, a segment by    *)
(*    its position in the episode (the code holds object references).      *)
(***************************************************************************)
EXTENDS Integers, Sequences, FiniteSets, TLC

VARIABLES
  sessionCandidates,  \* the module-level Map, as its entries in insertion order
  call,               \* the arguments of the last call
  resp,               \* what the last call returned (or that it threw)
  hist,               \* history: keys by the time they entered the cache, keys removed by the last call
  load,               \* the workload so far: sessions opened, consumed, reopened
  parser,             \* parseTranscriptBody at work: the lines left and its locals
  loader,             \* loadAllTranscripts at work: the files found and the episodes kept
  server              \* a server process: its entry point, its index, its answers

vars == <<sessionCandidates, call, resp, hist, load, parser, loader, server>>

\* What the server holds while it answers queries, and what ingestion and
\* startup work on.
serving == <<sessionCandidates, call, resp, hist, load>>
ingestion == <<parser, loader, server>>

-----------------------------------------------------------------------------
(* Strings *)

\* UTF-16 code unit of the characters the model uses.
Code(c) ==
  CASE c = " " -> 32
    [] c = "*" -> 42
    [] c = "+" -> 43
    [] c = "," -> 44
    [] c = "-" -> 45
    [] c = "." -> 46
    [] c = "0" -> 48
    [] c = "1" -> 49
    [] c = "2" -> 50
    [] c = "3" -> 51
    [] c = "5" -> 53
    [] c = ":" -> 58
    [] c = "A" -> 65
    [] c = "B" -> 66
    [] c = "L" -> 76
    [] c = "\\" -> 92
    [] c = "^" -> 94
    [] c = "a" -> 97
    [] c = "b" -> 98
    [] c = "e" -> 101
    [] c = "f" -> 102
    [] c = "g" -> 103
    [] c = "i" -> 105
    [] c = "l" -> 108
    [] c = "n" -> 110
    [] c = "k" -> 107
    [] c = "o" -> 111
    [] c = "p" -> 112
    [] c = "r" -> 114
    [] c = "s" -> 115
    [] c = "t" -> 116
    [] c = "u" -> 117
    [] c = "w" -> 119
    [] c = "x" -> 120
    [] c = "z" -> 122
    [] c = "~" -> 126

\* String.prototype.toLowerCase on one character.
LowerChar(c) ==
  CASE c = "A" -> "a"
    [] c = "B" -> "b"
    [] c = "L" -> "l"
    [] OTHER -> c

ToLowerCase(s) == [i \in 1..Len(s) |-> LowerChar(s[i])]

IsSpace(c) == c = " "

RECURSIVE DropSpacesLeft(_)
DropSpacesLeft(s) ==
  IF s # <<>> /\ IsSpace(Head(s)) THEN DropSpacesLeft(Tail(s)) ELSE s

RECURSIVE DropSpacesRight(_)
DropSpacesRight(s) ==
  IF s # <<>> /\ IsSpace(s[Len(s)])
  THEN DropSpacesRight(SubSeq(s, 1, Len(s) - 1))
  ELSE s

\* String.prototype.trim
Trim(s) == DropSpacesRight(DropSpacesLeft(s))

\* The comparison Array.prototype.sort uses without a comparator: by code unit,
\* a proper prefix first.
RECURSIVE StrLess(_, _)
StrLess(s, t) ==
  IF t = <<>> THEN FALSE
  ELSE IF s = <<>> THEN TRUE
  ELSE IF Code(Head(s)) < Code(Head(t)) THEN TRUE
  ELSE IF Code(Head(s)) > Code(Head(t)) THEN FALSE
  ELSE StrLess(Tail(s), Tail(t))

RECURSIVE InsertSorted(_, _)
InsertSorted(x, sorted) ==
  IF sorted = <<>> THEN <<x>>
  ELSE IF StrLess(x, Head(sorted)) THEN <<x>> \o sorted
  ELSE <<Head(sorted)>> \o InsertSorted(x, Tail(sorted))

\* Array.prototype.sort() on an array of strings.
RECURSIVE SortStrings(_)
SortStrings(a) ==
  IF a = <<>> THEN <<>>
  ELSE InsertSorted(a[Len(a)], SortStrings(SubSeq(a, 1, Len(a) - 1)))

\* Array.prototype.join
RECURSIVE Join(_, _)
Join(a, sep) ==
  IF a = <<>> THEN <<>>
  ELSE IF Len(a) = 1 THEN a[1]
  ELSE a[1] \o sep \o Join(Tail(a), sep)

\* String.prototype.split on a one-character separator.
RECURSIVE SplitFrom(_, _, _)
SplitFrom(s, sep, cur) ==
  IF s = <<>> THEN <<cur>>
  ELSE IF Head(s) = sep THEN <<cur>> \o SplitFrom(Tail(s), sep, <<>>)
  ELSE SplitFrom(Tail(s), sep, Append(cur, Head(s)))

Split(s, sep) == SplitFrom(s, sep, <<>>)

\* String.prototype.includes
Includes(s, t) ==
  \E i \in 1..(Len(s) + 1) :
    /\ i + Len(t) - 1 <= Len(s)
    /\ SubSeq(s, i, i + Len(t) - 1) = t

Digits == <<"0", "1", "2", "3">>

\* Template-literal formatting of a small array position.
NumberToString(n) == <<Digits[n + 1]>>

\* parseInt(str, 10) of a string; -1 stands for NaN.
ParseInt(s) ==
  IF Len(s) = 1 /\ \E d \in 1..Len(Digits) : Digits[d] = s[1]
  THEN (CHOOSE d \in 1..Len(Digits) : Digits[d] = s[1]) - 1
  ELSE -1

-----------------------------------------------------------------------------
(* Optional arguments (undefined or a value) *)

None == [has |-> FALSE, v |-> 0]
NoString == [has |-> FALSE, v |-> <<>>]
Some(x) == [has |-> TRUE, v |-> x]

\* A destructuring default: `{ name = dflt } = options`.
OrDefault(opt, dflt) == IF opt.has THEN opt.v ELSE dflt

-----------------------------------------------------------------------------
(* The corpus: the episodes loadAllTranscripts returned *)

Seg(speaker, timestamp, seconds, text) ==
  [speaker |-> speaker, timestamp |-> timestamp,
   timestampSeconds |-> seconds, text |-> text]

T_05 == <<"0","0",":","0","0",":","0","5">>
T_12 == <<"0","0",":","0","0",":","1","2">>
T_30 == <<"0","0",":","0","0",":","3","0">>
T_100 == <<"0","0",":","0","1",":","0","0">>
T_130 == <<"0","0",":","0","1",":","3","0">>

W_fit == <<"f","i","t">>
W_grow == <<"g","r","o","w">>
W_lean == <<"l","e","a","n">>
W_Bo == <<"B","o">>
W_Al == <<"A","l">>
W_Len == <<"L","e","n">>
SP == <<" ">>

\* Two episodes. Two segments of the second one carry the same timestamp (two
\* speaker headers within one second).
Corpus ==
  << [folderName |-> <<"b","o">>, guest |-> W_Bo, title |-> W_fit,
      segments |-> << Seg(W_Bo, T_05, 5, W_fit \o SP \o W_fit \o SP \o W_grow),
                      Seg(W_Len, T_12, 12, W_grow),
                      Seg(W_Bo, T_100, 60, W_lean \o SP \o W_fit),
                      Seg(W_Len, T_130, 90, W_lean) >>],
     [folderName |-> <<"a","l">>, guest |-> W_Al, title |-> W_grow,
      segments |-> << Seg(W_Al, T_05, 5, W_grow \o SP \o W_grow),
                      Seg(W_Len, T_30, 30, W_fit \o SP \o W_lean),
                      Seg(W_Al, T_30, 30, W_lean) >>] >>

-----------------------------------------------------------------------------
(* buildSearchIndex *)

IsAlnumOrSpace(c) ==
  \/ IsSpace(c)
  \/ (Code(c) >= 97 /\ Code(c) <= 122)
  \/ (Code(c) >= 48 /\ Code(c) <= 57)

\* name.toLowerCase().trim().replace(/[^a-z0-9\s]/g, '')
normalizeGuestName(name) ==
  SelectSeq(Trim(ToLowerCase(name)), IsAlnumOrSpace)

\* index.episodes: folderName -> Episode, as the position in Corpus of the episode
\* the Map holds for the folder name (a later set overwrites), 0 when there is none.
EpisodeOf(folderName) ==
  LET hits == {e \in 1..Len(Corpus) : Corpus[e].folderName = folderName}
  IN IF hits = {} THEN 0 ELSE CHOOSE e \in hits : \A o \in hits : o <= e

\* index.guestToFolder.get(normalized): the folder of the last episode with that
\* normalized guest, <<>> (undefined) when there is none.
guestToFolder(normalized) ==
  LET hits == {e \in 1..Len(Corpus) : normalizeGuestName(Corpus[e].guest) = normalized}
  IN IF hits = {} THEN <<>>
     ELSE Corpus[CHOOSE e \in hits : \A o \in hits : o <= e].folderName

FieldNames == {"text", "speaker", "guest", "title"}

FieldChars(f) ==
  CASE f = "text" -> <<"t","e","x","t">>
    [] f = "speaker" -> <<"s","p","e","a","k","e","r">>
    [] f = "guest" -> <<"g","u","e","s","t">>
    [] f = "title" -> <<"t","i","t","l","e">>

\* this.field(name, { boost })
Boost(f) ==
  CASE f = "text" -> 10
    [] f = "speaker" -> 3
    [] f = "guest" -> 2
    [] f = "title" -> 1

\* The documents handed to the engine, in the order they are added: one per segment,
\* id "<folderName>:<i>".
RECURSIVE DocumentsFrom(_)
DocumentsFrom(e) ==
  IF e > Len(Corpus) THEN <<>>
  ELSE [i \in 1..Len(Corpus[e].segments) |->
          [id |-> Corpus[e].folderName \o <<":">> \o NumberToString(i - 1),
           text |-> Corpus[e].segments[i].text,
           speaker |-> Corpus[e].segments[i].speaker,
           guest |-> Corpus[e].guest,
           title |-> Corpus[e].title]]
       \o DocumentsFrom(e + 1)

Documents == DocumentsFrom(1)

-----------------------------------------------------------------------------
(* The full-text engine behind index.lunrIndex.search: the query syntax of     *)
(* field-scoped terms and backslash escapes, any-term matching, field boosts.  *)
(* Queries of the model are written with letters, spaces, ':', ',' and '\'.    *)

Lexeme(type, str) == [type |-> type, str |-> str]

\* The query lexer: a backslash takes the next character literally, a ':' ends a
\* field name, a space ends a term.
RECURSIVE LexFrom(_, _)
LexFrom(s, cur) ==
  IF s = <<>> THEN (IF cur = <<>> THEN <<>> ELSE <<Lexeme("TERM", cur)>>)
  ELSE IF Head(s) = "\\"
    THEN (IF Len(s) = 1 THEN LexFrom(<<>>, cur)
          ELSE LexFrom(Tail(Tail(s)), Append(cur, s[2])))
  ELSE IF Head(s) = ":"
    THEN <<Lexeme("FIELD", cur)>> \o LexFrom(Tail(s), <<>>)
  ELSE IF IsSpace(Head(s))
    THEN (IF cur = <<>> THEN <<>> ELSE <<Lexeme("TERM", cur)>>) \o LexFrom(Tail(s), <<>>)
  ELSE LexFrom(Tail(s), Append(cur, Head(s)))

Lex(s) == LexFrom(s, <<>>)

FieldNamed(str) == {f \in FieldNames : FieldChars(f) = str}

\* The query parser: a clause is a term, searched in every field, or a known field
\* followed by a term. ok = FALSE is a QueryParseError.
RECURSIVE ParseFrom(_)
ParseFrom(lexemes) ==
  IF lexemes = <<>> THEN [ok |-> TRUE, clauses |-> <<>>]
  ELSE IF Head(lexemes).type = "TERM"
    THEN LET rest == ParseFrom(Tail(lexemes))
         IN [ok |-> rest.ok,
             clauses |-> <<[fields |-> FieldNames,
                            term |-> ToLowerCase(Head(lexemes).str)]>> \o rest.clauses]
  ELSE IF FieldNamed(Head(lexemes).str) = {} THEN [ok |-> FALSE, clauses |-> <<>>]
  ELSE IF Len(lexemes) = 1 \/ lexemes[2].type # "TERM" THEN [ok |-> FALSE, clauses |-> <<>>]
  ELSE LET rest == ParseFrom(Tail(Tail(lexemes)))
       IN [ok |-> rest.ok,
           clauses |-> <<[fields |-> FieldNamed(Head(lexemes).str),
                          term |-> ToLowerCase(lexemes[2].str)]>> \o rest.clauses]

\* The tokens of a document field: lower-cased, split on spaces.
Tokenize(s) == SelectSeq(Split(ToLowerCase(s), " "), LAMBDA t : t # <<>>)

Count(term, tokens) == Cardinality({i \in 1..Len(tokens) : tokens[i] = term})

RECURSIVE FieldsScore(_, _, _)
FieldsScore(doc, term, fields) ==
  IF fields = {} THEN 0
  ELSE LET f == CHOOSE g \in fields : TRUE
       IN Boost(f) * Count(term, Tokenize(doc[f])) + FieldsScore(doc, term, fields \ {f})

ClauseScore(doc, clause) == FieldsScore(doc, clause.term, clause.fields)

RECURSIVE DocScore(_, _)
DocScore(doc, clauses) ==
  IF clauses = <<>> THEN 0
  ELSE ClauseScore(doc, Head(clauses)) + DocScore(doc, Tail(clauses))

\* results.sort((a, b) => b.score - a.score): a stable sort, highest score first.
RECURSIVE InsertByScore(_, _)
InsertByScore(x, sorted) ==
  IF sorted = <<>> THEN <<x>>
  ELSE IF x.score > Head(sorted).score THEN <<x>> \o sorted
  ELSE <<Head(sorted)>> \o InsertByScore(x, Tail(sorted))

RECURSIVE SortByScore(_)
SortByScore(a) ==
  IF a = <<>> THEN <<>>
  ELSE InsertByScore(a[Len(a)], SortByScore(SubSeq(a, 1, Len(a) - 1)))

\* The engine's answer to q: an error on a query the parser rejects, otherwise the
\* matching documents as {ref, score}, ranked.
EngineSearch(q) ==
  LET parsed == ParseFrom(Lex(q))
      scored == [d \in 1..Len(Documents) |->
                   [ref |-> Documents[d].id,
                    score |-> DocScore(Documents[d], parsed.clauses)]]
  IN IF ~parsed.ok THEN [threw |-> TRUE, results |-> <<>>]
     ELSE [threw |-> FALSE,
           results |-> SortByScore(SelectSeq(scored, LAMBDA r : r.score > 0))]

-----------------------------------------------------------------------------
(* searchIndex *)

DefaultSearchLimit == 10
DefaultSearchMinScore == 10

EscapedChars == {"+", "-", ":", "^", "~", "*"}

\* Variant: the colon is left as it is.
RECURSIVE Escape_NoColon(_)
Escape_NoColon(s) ==
  IF s = <<>> THEN <<>>
  ELSE (IF Head(s) \in EscapedChars \ {":"} THEN <<"\\", Head(s)>> ELSE <<Head(s)>>)
       \o Escape_NoColon(Tail(s))

\* query.replace(/[+\-:^~*]/g, '\\$&')
RECURSIVE Escape(_)
Escape(s) ==
  IF s = <<>> THEN <<>>
  ELSE (IF Head(s) \in EscapedChars THEN <<"\\", Head(s)>> ELSE <<Head(s)>>)
       \o Escape(Tail(s))

\* `if (guest)`: undefined and the empty string are falsy.
Truthy(opt) == opt.has /\ opt.v # <<>>

\* The guest post-filter of the result loop: TRUE when the hit is kept.
GuestMatches(guest, episodeGuest) ==
  LET normalizedGuest == normalizeGuestName(guest)
      normalizedEpisodeGuest == normalizeGuestName(episodeGuest)
  IN \/ Includes(normalizedEpisodeGuest, normalizedGuest)
     \/ Includes(normalizedGuest, normalizedEpisodeGuest)

\* The query handed to the engine first: the guest token is appended when the
\* normalized guest resolves to a folder.
SearchQuery(query, guest) ==
  IF Truthy(guest) /\ guestToFolder(normalizeGuestName(guest.v)) # <<>>
  THEN query \o <<" ", "g", "u", "e", "s", "t", ":">> \o guest.v
  ELSE query

-----------------------------------------------------------------------------
(* The arguments the clients call with *)

Q_none == <<"z","z">>
Q_two == W_fit \o SP \o W_grow
Q_badField == <<"x",":">> \o W_fit
Q_bareColon == W_fit \o <<" ", ":">>
Q_badTwice == <<"\\", ":", ":">>

Guest_bo == <<"b","o">>
Guest_b == <<"b">>
Guest_dotted == <<" ","A",".","l">>
Guest_unknown == <<"z">>
Guest_colon == <<"b","o",":">>

\* Queries and guests of the direct searches.
SearchQueries ==
  {W_fit, W_grow, W_lean, Q_none, Q_two, Q_badField, Q_bareColon, Q_badTwice}

SearchGuests ==
  {NoString, Some(<<>>), Some(Guest_bo), Some(Guest_b), Some(Guest_dotted),
   Some(Guest_unknown), Some(Guest_colon)}

SearchLimits == {None, Some(0), Some(1), Some(2)}

SearchMinScores == {None, Some(0), Some(11)}

\* The searches of the protocol: a query and its expanded terms.
Search(query, terms) == [query |-> query, terms |-> terms]

Searches ==
  { Search(W_fit, <<>>), Search(W_fit, <<W_grow>>),
    Search(W_fit, <<W_grow, W_lean>>), Search(W_fit, <<W_lean, W_grow>>),
    Search(Q_none, <<>>), Search(Q_badField, <<W_lean>>) }

\* Guest and min_score of the filter-phase calls.
Filter(guest, minScore) == [guest |-> guest, minScore |-> minScore]

NoFilter == Filter(NoString, None)

\* The filter-phase calls: every search without guest and min_score, and some with.
FilterCalls ==
  {[search |-> s, filter |-> NoFilter] : s \in Searches}
    \cup { [search |-> Search(W_fit, <<>>), filter |-> Filter(Some(Guest_bo), None)],
           [search |-> Search(W_fit, <<>>), filter |-> Filter(Some(Guest_unknown), None)],
           [search |-> Search(W_fit, <<W_grow>>), filter |-> Filter(NoString, Some(15))] }

\* selected_indices (in halves) and limit of the complete-phase calls:
\* [], [99, 2], [99, 2] limit 1, [0..5], [0..5] limit 2, [-1], [1.5], [2, 0],
\* [2, 1.5], [2, 1.5] limit 1.
Pick(selectedIndices, limit) == [selectedIndices |-> selectedIndices, limit |-> limit]

Picks ==
  { Pick(<<>>, None), Pick(<<198, 4>>, None),
    Pick(<<0, 2, 4, 6, 8, 10>>, None), Pick(<<0, 2, 4, 6, 8, 10>>, Some(2)),
    Pick(<<-2>>, None), Pick(<<3>>, None),
    Pick(<<4, 0>>, None), Pick(<<198, 4>>, Some(1)),
    Pick(<<4, 3>>, None), Pick(<<4, 3>>, Some(1)) }

\* The sessions of the cache workload, numbered: distinct session keys, each with
\* candidates.
SessionWords == <<W_fit, W_grow, W_lean>>
SessionTerms == <<<<>>, <<W_fit>>, <<W_grow>>, <<W_lean>>, <<W_grow, W_fit>>>>

SessionSearch(i) ==
  Search(SessionWords[((i - 1) % Len(SessionWords)) + 1],
         SessionTerms[((i - 1) \div Len(SessionWords)) + 1])

\* Every string that is searched for, and every guest.
SearchedStrings ==
  SearchQueries \cup {s.query : s \in Searches}
    \cup UNION {{s.terms[i] : i \in 1..Len(s.terms)} : s \in Searches}
    \cup {SessionWords[i] : i \in 1..Len(SessionWords)}

GuestsUsed == SearchGuests \cup {c.filter.guest : c \in FilterCalls}

\* Every query the engine can be handed.
EngineQueries ==
  UNION {{SearchQuery(q, g), Escape(q)} : q \in SearchedStrings, g \in GuestsUsed}

\* The index is built once and never changes: the engine's answers, computed once.
EngineAnswers == [q \in EngineQueries |-> EngineSearch(q)]

\* index.lunrIndex.search(q)
lunrSearch(q) == EngineAnswers[q]

\* The loop over the engine's results: `acc` is searchResults so far.
RECURSIVE CollectResults(_, _, _, _, _)
CollectResults(results, acc, guest, limit, minScore) ==
  IF results = <<>> THEN acc
  ELSE
    LET result == Head(results)
        parts == Split(result.ref, ":")
        folderName == parts[1]
        segmentIndex == IF Len(parts) >= 2 THEN ParseInt(parts[2]) ELSE -1
        episode == EpisodeOf(folderName)
        skip ==
          \/ result.score < minScore
          \/ episode = 0
          \/ (Truthy(guest) /\ ~GuestMatches(guest.v, Corpus[episode].guest))
          \/ segmentIndex < 0
          \/ segmentIndex >= Len(Corpus[episode].segments)
        pushed == Append(acc, [episode |-> episode, segment |-> segmentIndex + 1,
                               score |-> result.score])
    IN IF skip THEN CollectResults(Tail(results), acc, guest, limit, minScore)
       ELSE IF Len(pushed) >= limit THEN pushed
       ELSE CollectResults(Tail(results), pushed, guest, limit, minScore)

\* Variant: the retry path returns the hits without the score threshold.
searchIndex_RetryUnfiltered(query, guest, limitOpt, minScoreOpt) ==
  LET limit == OrDefault(limitOpt, DefaultSearchLimit)
      minScore == OrDefault(minScoreOpt, DefaultSearchMinScore)
      searchQuery == SearchQuery(query, guest)
      first == lunrSearch(searchQuery)
      escapedQuery == Escape(query)
      second == lunrSearch(escapedQuery)
  IN IF ~first.threw
       THEN [results |-> CollectResults(first.results, <<>>, guest, limit, minScore),
             attempts |-> <<searchQuery>>, threw |-> FALSE]
     ELSE IF ~second.threw
       THEN [results |-> CollectResults(second.results, <<>>, guest, limit, 0),
             attempts |-> <<searchQuery, escapedQuery>>, threw |-> FALSE]
     ELSE [results |-> <<>>, attempts |-> <<searchQuery, escapedQuery>>, threw |-> FALSE]

\* Variant: when the guest token was appended to the query, the post-filter is left
\* to the engine.
searchIndex_TokenOnly(query, guest, limitOpt, minScoreOpt) ==
  LET limit == OrDefault(limitOpt, DefaultSearchLimit)
      minScore == OrDefault(minScoreOpt, DefaultSearchMinScore)
      searchQuery == SearchQuery(query, guest)
      filtered == IF searchQuery = query THEN guest ELSE NoString
      first == lunrSearch(searchQuery)
      escapedQuery == Escape(query)
      second == lunrSearch(escapedQuery)
  IN IF ~first.threw
       THEN [results |-> CollectResults(first.results, <<>>, filtered, limit, minScore),
             attempts |-> <<searchQuery>>, threw |-> FALSE]
     ELSE IF ~second.threw
       THEN [results |-> CollectResults(second.results, <<>>, guest, limit, minScore),
             attempts |-> <<searchQuery, escapedQuery>>, threw |-> FALSE]
     ELSE [results |-> <<>>, attempts |-> <<searchQuery, escapedQuery>>, threw |-> FALSE]

\* searchIndex(index, query, {guest, limit, minScore}); `attempts` lists the
\* queries handed to the engine, `threw` tells whether an error left the function.
searchIndex(query, guest, limitOpt, minScoreOpt) ==
  LET limit == OrDefault(limitOpt, DefaultSearchLimit)
      minScore == OrDefault(minScoreOpt, DefaultSearchMinScore)
      searchQuery == SearchQuery(query, guest)
      first == lunrSearch(searchQuery)
      escapedQuery == Escape(query)
      second == lunrSearch(escapedQuery)
  IN IF ~first.threw
       THEN [results |-> CollectResults(first.results, <<>>, guest, limit, minScore),
             attempts |-> <<searchQuery>>, threw |-> FALSE]
     ELSE IF ~second.threw
       THEN [results |-> CollectResults(second.results, <<>>, guest, limit, minScore),
             attempts |-> <<searchQuery, escapedQuery>>, threw |-> FALSE]
     ELSE [results |-> <<>>, attempts |-> <<searchQuery, escapedQuery>>, threw |-> FALSE]

-----------------------------------------------------------------------------
(* A JavaScript Map, as the sequence of its entries [key, value] in insertion order *)

MapKeys(m) == [i \in 1..Len(m) |-> m[i].key]

MapValues(m) == [i \in 1..Len(m) |-> m[i].value]

MapHas(m, key) == \E i \in 1..Len(m) : m[i].key = key

\* Map.prototype.get, for a key the map has.
MapGet(m, key) == m[CHOOSE i \in 1..Len(m) : m[i].key = key].value

\* Variant: setting a present key moves it to the end.
MapSet_MoveToEnd(m, key, value) ==
  Append(SelectSeq(m, LAMBDA entry : entry.key # key), [key |-> key, value |-> value])

\* Map.prototype.set: a present key keeps its place, a new key goes last.
MapSet(m, key, value) ==
  IF MapHas(m, key)
  THEN [i \in 1..Len(m) |-> IF m[i].key = key THEN [key |-> key, value |-> value] ELSE m[i]]
  ELSE Append(m, [key |-> key, value |-> value])

\* Map.prototype.delete
MapDelete(m, key) == SelectSeq(m, LAMBDA entry : entry.key # key)

\* Array.prototype.slice(0, end)
SliceTo(a, end) ==
  LET to == IF end < 0 THEN (IF Len(a) + end < 0 THEN 0 ELSE Len(a) + end)
            ELSE IF end > Len(a) THEN Len(a) ELSE end
  IN SubSeq(a, 1, to)

-----------------------------------------------------------------------------
(* smartSearch *)

MaxSessions == 10
PerTermLimit == 15
MaxCandidates == 30
DefaultSmartLimit == 5
DefaultSmartMinScore == 5

\* Variant: the terms are joined in the order given.
getSessionKey_Unsorted(query, expandedTerms) ==
  query \o <<":", ":">> \o Join(expandedTerms, <<",">>)

\* `${query}::${expandedTerms.sort().join(',')}`
getSessionKey(query, expandedTerms) ==
  query \o <<":", ":">> \o Join(SortStrings(expandedTerms), <<",">>)

Response(phase, message) ==
  [phase |-> phase, message |-> message, threw |-> FALSE,
   originalQuery |-> NoString,
   candidates |-> NoString, candidateCount |-> None,
   quotes |-> <<>>, resultCount |-> None]

\* A call that ended with an exception instead of a response.
Thrown == [Response("none", "TypeError") EXCEPT !.threw = TRUE]

\* Variant: the expand response carries an empty candidate list.
handleExpandPhase_WithCandidates(query) ==
  [Response("expand", "instruction") EXCEPT
     !.originalQuery = Some(query), !.candidates = Some(<<>>)]

handleExpandPhase(query) ==
  [Response("expand", "instruction") EXCEPT !.originalQuery = Some(query)]

\* `${result.episode.folderName}:${result.segment.timestamp}`
MergeKey(result) ==
  Corpus[result.episode].folderName \o <<":">>
    \o Corpus[result.episode].segments[result.segment].timestamp

\* Variant: a hit always replaces the one held for its key.
RECURSIVE MergeResults_LastWins(_, _)
MergeResults_LastWins(resultMap, results) ==
  IF results = <<>> THEN resultMap
  ELSE MergeResults_LastWins(MapSet(resultMap, MergeKey(Head(results)), Head(results)),
                             Tail(results))

\* Variant: a hit also replaces the one held for its key when the scores are equal.
RECURSIVE MergeResults_ReplaceOnTie(_, _)
MergeResults_ReplaceOnTie(resultMap, results) ==
  IF results = <<>> THEN resultMap
  ELSE LET result == Head(results)
           key == MergeKey(result)
           replace == ~MapHas(resultMap, key) \/ result.score >= MapGet(resultMap, key).score
       IN MergeResults_ReplaceOnTie(
            IF replace THEN MapSet(resultMap, key, result) ELSE resultMap, Tail(results))

\* The inner loop of the merge: a hit replaces the one held for its key only when
\* its score is strictly greater.
RECURSIVE MergeResults(_, _)
MergeResults(resultMap, results) ==
  IF results = <<>> THEN resultMap
  ELSE LET result == Head(results)
           key == MergeKey(result)
           replace == ~MapHas(resultMap, key) \/ result.score > MapGet(resultMap, key).score
       IN MergeResults(IF replace THEN MapSet(resultMap, key, result) ELSE resultMap,
                       Tail(results))

\* The outer loop: one search per term, original query first.
RECURSIVE MergeTerms(_, _, _, _)
MergeTerms(resultMap, terms, guest, minScore) ==
  IF terms = <<>> THEN resultMap
  ELSE MergeTerms(
         MergeResults(resultMap,
                      searchIndex(Head(terms), guest, Some(PerTermLimit), Some(minScore)).results),
         Tail(terms), guest, minScore)

\* Variant: the cut to 30 comes before the sort.
SortAndCap_CapFirst(values) == SortByScore(SliceTo(values, MaxCandidates))

\* values.sort((a, b) => b.score - a.score).slice(0, 30)
SortAndCap(values) == SliceTo(SortByScore(values), MaxCandidates)

\* Array.from(resultMap.values()).sort(...).slice(0, 30)
AllResults(query, expandedTerms, guest, minScore) ==
  SortAndCap(MapValues(MergeTerms(<<>>, <<query>> \o expandedTerms, guest, minScore)))

\* The merged lists of the filter-phase calls of the model, computed once (the index
\* never changes).
FilterArguments ==
  {<<c.search.query, c.search.terms, c.filter.guest,
     OrDefault(c.filter.minScore, DefaultSmartMinScore)>> : c \in FilterCalls}
    \cup {<<SessionSearch(i).query, SessionSearch(i).terms, NoString, DefaultSmartMinScore>> :
            i \in 1..(Len(SessionWords) * Len(SessionTerms))}

AllResultsOf == [a \in FilterArguments |-> AllResults(a[1], a[2], a[3], a[4])]

\* The clean-up loop: delete keys[i] for i < keys.length - 10.
EvictOld(m) ==
  IF Len(m) > MaxSessions THEN SubSeq(m, Len(m) - MaxSessions + 1, Len(m)) ELSE m

\* The candidates shown to the caller: index and the segment the texts are taken from.
Candidates(allResults) ==
  [idx \in 1..Len(allResults) |->
     [index |-> idx - 1, episode |-> allResults[idx].episode,
      segment |-> allResults[idx].segment]]

\* Each handler returns the response, the Map as it leaves it, and the terms it
\* called searchIndex with.
\* handleFilterPhase from the merged, sorted and capped list on.
FilterFrom(cache, query, expandedTerms, allResults) ==
  LET sessionKey == getSessionKey(query, expandedTerms)
  IN IF Len(allResults) = 0
     THEN [resp |-> [Response("complete", "No quotes found") EXCEPT !.resultCount = Some(0)],
           cache |-> cache, searched |-> <<query>> \o expandedTerms]
     ELSE [resp |-> [Response("filter", "instruction") EXCEPT
                       !.originalQuery = Some(query),
                       !.candidates = Some(Candidates(allResults)),
                       !.candidateCount = Some(Len(allResults))],
           cache |-> EvictOld(MapSet(cache, sessionKey, allResults)),
           searched |-> <<query>> \o expandedTerms]

handleFilterPhase(cache, query, expandedTerms, guest, minScore) ==
  FilterFrom(cache, query, expandedTerms,
             AllResultsOf[<<query, expandedTerms, guest, minScore>>])

\* candidates[idx] for a number idx given in halves: undefined unless idx is an
\* integer.
Undefined == [episode |-> 0, segment |-> 0, score |-> 0]
ElementAt(candidates, half) ==
  IF half % 2 = 0 THEN candidates[(half \div 2) + 1] ELSE Undefined

\* idx >= 0 && idx < candidates.length, idx in halves.
InBounds(half, n) == half >= 0 /\ half < 2 * n

\* Variant: the cut to `limit` comes before the bounds filter.
SelectedResults_SliceFirst(candidates, selectedIndices, limit) ==
  LET kept == SelectSeq(SliceTo(selectedIndices, limit),
                        LAMBDA idx : InBounds(idx, Len(candidates)))
  IN [i \in 1..Len(kept) |-> ElementAt(candidates, kept[i])]

\* selectedIndices.filter(in bounds).slice(0, limit).map(idx => candidates[idx])
SelectedResults(candidates, selectedIndices, limit) ==
  LET kept == SliceTo(SelectSeq(selectedIndices, LAMBDA idx : InBounds(idx, Len(candidates))),
                      limit)
  IN [i \in 1..Len(kept) |-> ElementAt(candidates, kept[i])]

\* Variant: a missing session is an error.
SessionExpired_Throws(cache) == [resp |-> Thrown, cache |-> cache, searched |-> <<>>]

\* The return taken when the Map has no entry for the session key.
SessionExpired(cache) ==
  [resp |-> [Response("complete", "Session expired") EXCEPT !.resultCount = Some(0)],
   cache |-> cache, searched |-> <<>>]

handleCompletePhase(cache, query, expandedTerms, selectedIndices, limit) ==
  LET sessionKey == getSessionKey(query, expandedTerms)
      candidates == MapGet(cache, sessionKey)
      selectedResults == SelectedResults(candidates, selectedIndices, limit)
  IN IF ~MapHas(cache, sessionKey) THEN SessionExpired(cache)
     ELSE IF Len(selectedResults) = 0
       THEN [resp |-> [Response("complete", "No relevant quotes found") EXCEPT
                         !.resultCount = Some(0)],
             cache |-> cache, searched |-> <<>>]
     \* result.episode of an undefined result: a TypeError
     ELSE IF \E i \in 1..Len(selectedResults) : selectedResults[i] = Undefined
       THEN [resp |-> Thrown, cache |-> cache, searched |-> <<>>]
     ELSE [resp |-> [Response("complete", "Found") EXCEPT
                       !.quotes = selectedResults,
                       !.resultCount = Some(Len(selectedResults))],
           cache |-> MapDelete(cache, sessionKey), searched |-> <<>>]

Params(query, guest, limit, minScore, expandedTerms, selectedIndices) ==
  [query |-> query, guest |-> guest, limit |-> limit, minScore |-> minScore,
   expandedTerms |-> expandedTerms, selectedIndices |-> selectedIndices]

\* Variant: an empty array is taken for a missing one.
Supplied_NonEmpty(opt) == opt.has /\ opt.v # <<>>

\* An array is truthy, empty or not.
Supplied(opt) == opt.has

\* The handler smartSearch hands the call to.
PhaseOf(params) ==
  IF Supplied(params.expandedTerms) /\ Supplied(params.selectedIndices) THEN "complete"
  ELSE IF Supplied(params.expandedTerms) THEN "filter"
  ELSE "expand"

smartSearch(cache, params) ==
  LET limit == OrDefault(params.limit, DefaultSmartLimit)
      minScore == OrDefault(params.minScore, DefaultSmartMinScore)
  IN IF PhaseOf(params) = "complete"
       THEN handleCompletePhase(cache, params.query, params.expandedTerms.v,
                                params.selectedIndices.v, limit)
     ELSE IF PhaseOf(params) = "filter"
       THEN handleFilterPhase(cache, params.query, params.expandedTerms.v,
                              params.guest, minScore)
     ELSE [resp |-> handleExpandPhase(params.query), cache |-> cache, searched |-> <<>>]

-----------------------------------------------------------------------------
(* The calls *)

NoCall ==
  [tool |-> "none", query |-> <<>>, guest |-> NoString, limit |-> None,
   minScore |-> None, expandedTerms |-> NoString, selectedIndices |-> NoString]

SmartCall(params) ==
  [tool |-> "search_quotes_smart", query |-> params.query, guest |-> params.guest,
   limit |-> params.limit, minScore |-> params.minScore,
   expandedTerms |-> params.expandedTerms, selectedIndices |-> params.selectedIndices]

SearchCall(query, guest, limit, minScore) ==
  [tool |-> "search_quotes", query |-> query, guest |-> guest, limit |-> limit,
   minScore |-> minScore, expandedTerms |-> NoString, selectedIndices |-> NoString]

KeySet(m) == {m[i].key : i \in 1..Len(m)}
\* No candidates were listed by the call before.
NoListing == [has |-> FALSE, query |-> <<>>, terms |-> <<>>, candidates |-> <<>>]

\* The same terms in some order.
IsPermutation(a, b) ==
  /\ Len(a) = Len(b)
  /\ \A x \in {a[i] : i \in 1..Len(a)} \cup {b[i] : i \in 1..Len(b)} :
       Cardinality({i \in 1..Len(a) : a[i] = x}) = Cardinality({i \in 1..Len(b) : b[i] = x})

\* The candidates the call just answered listed, if it answered with phase
\* 'filter' and the call that comes now is a complete-phase call with its query
\* and its terms in some order.
Listing(params) ==
  IF /\ call.tool = "search_quotes_smart"
     /\ resp.phase = "filter"
     /\ PhaseOf(params) = "complete"
     /\ params.query = call.query
     /\ IsPermutation(params.expandedTerms.v, call.expandedTerms.v)
  THEN [has |-> TRUE, query |-> call.query, terms |-> call.expandedTerms.v,
        candidates |-> resp.candidates.v]
  ELSE NoListing

\* History kept beside the program. order: the cached keys by the time they entered
\* the cache; of the last call: the handler it ran, the keys cached before it, the
\* oldest of them, the list cached under its session key, the keys it added and
\* removed, whether it changed the Map, the terms it searched the index for.
NextHist(params, before, after) ==
  LET added == KeySet(after) \ KeySet(before)
      entered == IF added = {} THEN hist.order
                 ELSE Append(hist.order, CHOOSE k \in added : TRUE)
      sessionKey == IF Supplied(params.expandedTerms)
                    THEN getSessionKey(params.query, params.expandedTerms.v)
                    ELSE <<>>
  IN [order |-> SelectSeq(entered, LAMBDA k : k \in KeySet(after)),
      ran |-> PhaseOf(params),
      key |-> sessionKey,
      before |-> KeySet(before),
      oldest |-> IF hist.order = <<>> THEN <<>> ELSE Head(hist.order),
      found |-> IF MapHas(before, sessionKey) THEN MapGet(before, sessionKey) ELSE <<>>,
      removed |-> KeySet(before) \ KeySet(after),
      added |-> added,
      changed |-> after # before,
      searched |-> <<>>,
      listed |-> Listing(params)]

NoHist ==
  [order |-> <<>>, ran |-> "none", key |-> <<>>, before |-> {}, oldest |-> <<>>,
   found |-> <<>>, removed |-> {}, added |-> {}, changed |-> FALSE, searched |-> <<>>,
   listed |-> NoListing]

\* One call of the search_quotes_smart tool: the handler runs to completion.
Smart(params) ==
  \E out \in {smartSearch(sessionCandidates, params)} :
    /\ call' = SmartCall(params)
    /\ resp' = out.resp
    /\ sessionCandidates' = out.cache
    /\ hist' = [NextHist(params, sessionCandidates, out.cache) EXCEPT
                  !.searched = out.searched]
    /\ UNCHANGED ingestion

\* A call without expanded_terms, with or without selected_indices.
ExpandCall ==
  /\ \E q \in {W_fit, Q_none}, sel \in {NoString, Some(<<>>), Some(<<0>>)} :
       Smart(Params(q, NoString, None, None, NoString, sel))
  /\ UNCHANGED load

FilterCall ==
  /\ \E c \in FilterCalls :
       Smart(Params(c.search.query, c.filter.guest, None, c.filter.minScore,
                    Some(c.search.terms), NoString))
  /\ UNCHANGED load

CompleteCall ==
  /\ \E s \in Searches, p \in Picks :
       Smart(Params(s.query, NoString, p.limit, None, Some(s.terms), Some(p.selectedIndices)))
  /\ UNCHANGED load

\* No session has been opened. recent: the keys of the sessions stored and not
\* consumed, by their latest store, the newest MaxSessions of them. merged: the
\* values of the result map of a filter-phase call over a large corpus. latest:
\* for each query and terms, the candidates its latest filter-phase call listed.
\* filtered: the filter-phase calls made with a guest.
NoLoad ==
  [opened |-> 0, consumed |-> 0, reopened |-> 0, restored |-> 0, recent |-> <<>>,
   merged |-> <<>>, latest |-> <<>>, filtered |-> {}]

\* Nothing has been asked yet.
InitServing ==
  /\ sessionCandidates = <<>>
  /\ call = NoCall
  /\ resp = Response("none", "none")
  /\ hist = NoHist
  /\ load = NoLoad

\* No transcript is being parsed.
NoParser == [pc |-> "idle"]

\* No directory is being loaded.
NoLoader == [pc |-> "idle"]

\* No request has been answered.
NoAnswer == [status |-> 0, episodes |-> <<>>]

\* No server process has been started.
ServerOff ==
  [entry |-> "none", pc |-> "off", search |-> [has |-> FALSE, v |-> <<>>],
   emptyLoad |-> FALSE, requests |-> 0, sinceEmpty |-> 0, answer |-> NoAnswer,
   pending |-> 0, loads |-> 0, builds |-> 0, current |-> 0, served |-> <<>>]

Init ==
  /\ InitServing
  /\ parser = NoParser
  /\ loader = NoLoader
  /\ server = ServerOff

Next == ExpandCall \/ FilterCall \/ CompleteCall

Spec == Init /\ [][Next]_vars

-----------------------------------------------------------------------------
(* The cache under load: clients open numbered sessions one after the other,   *)
(* store again or revisit any session opened so far, and consume or reopen     *)
(* one up to MaxDetours times.                                                 *)

NumSessions == 11
MaxDetours == 2

SessionKey(i) == getSessionKey(SessionSearch(i).query, SessionSearch(i).terms)

SessionFilter(i) ==
  Smart(Params(SessionSearch(i).query, NoString, None, None,
               Some(SessionSearch(i).terms), NoString))

\* The filter-phase call of a session not opened before.
OpenSession ==
  /\ load.opened < NumSessions
  /\ SessionFilter(load.opened + 1)
  /\ load' = [load EXCEPT !.opened = @ + 1]

\* A second filter-phase call of a session that is still cached.
StoreAgain ==
  /\ \E i \in 1..load.opened :
       /\ MapHas(sessionCandidates, SessionKey(i))
       /\ SessionFilter(i)
  /\ UNCHANGED load

\* A filter-phase call of a session that was consumed or evicted.
Reopen ==
  /\ load.consumed + load.reopened < MaxDetours
  /\ \E i \in 1..load.opened :
       /\ ~MapHas(sessionCandidates, SessionKey(i))
       /\ SessionFilter(i)
  /\ load' = [load EXCEPT !.reopened = @ + 1]

SessionComplete(i, selectedIndices) ==
  Smart(Params(SessionSearch(i).query, NoString, None, None,
               Some(SessionSearch(i).terms), Some(selectedIndices)))

\* A complete-phase call that selects candidate 0 of a cached session.
Consume ==
  /\ load.consumed + load.reopened < MaxDetours
  /\ \E i \in 1..load.opened :
       /\ MapHas(sessionCandidates, SessionKey(i))
       /\ SessionComplete(i, <<0>>)
  /\ load' = [load EXCEPT !.consumed = @ + 1]

\* A complete-phase call that leaves the cache as it is: candidate 99 of a cached
\* session, or any candidate of a session that is not cached.
Revisit ==
  /\ \E i \in 1..load.opened :
       SessionComplete(i, IF MapHas(sessionCandidates, SessionKey(i)) THEN <<198>> ELSE <<0>>)
  /\ UNCHANGED load

NextCache == OpenSession \/ StoreAgain \/ Reopen \/ Consume \/ Revisit

SpecCache == Init /\ [][NextCache]_vars

-----------------------------------------------------------------------------
(* Direct searches: the search_quotes tool and the HTTP servers call searchIndex *)

Search_quotes ==
  /\ \E q \in SearchQueries, g \in SearchGuests, l \in SearchLimits, m \in SearchMinScores :
       /\ call' = SearchCall(q, g, l, m)
       /\ resp' = searchIndex(q, g, l, m)
  /\ UNCHANGED <<sessionCandidates, hist, load>>
  /\ UNCHANGED ingestion

NextSearch == Search_quotes

SpecSearch == Init /\ [][NextSearch]_vars

-----------------------------------------------------------------------------
(* parseTranscriptBody: transcript lines to segments *)

IsDigit(c) == c \in {"0", "1", "2", "3", "4", "5", "6", "7", "8", "9"}

\* Number(s) for a string of one or two digits.
RECURSIVE DigitsToNumber(_)
DigitsToNumber(s) ==
  IF s = <<>> THEN 0
  ELSE 10 * DigitsToNumber(SubSeq(s, 1, Len(s) - 1)) + (Code(s[Len(s)]) - 48)

\* \d{1,2}:\d{2}:\d{2}
IsTimestamp(s) ==
  LET t == IF Len(s) = 7 THEN <<"0">> \o s ELSE s
  IN /\ Len(s) \in {7, 8}
     /\ \A i \in {1, 2, 4, 5, 7, 8} : IsDigit(t[i])
     /\ t[3] = ":" /\ t[6] = ":"

\* parseTimestamp, for a timestamp the header patterns let through.
parseTimestamp(timestamp) ==
  LET parts == Split(timestamp, ":")
  IN IF Len(parts) = 3
       THEN DigitsToNumber(parts[1]) * 3600 + DigitsToNumber(parts[2]) * 60
              + DigitsToNumber(parts[3])
     ELSE IF Len(parts) = 2
       THEN DigitsToNumber(parts[1]) * 60 + DigitsToNumber(parts[2])
     ELSE 0

NoMatch == [matched |-> FALSE, before |-> <<>>, timestamp |-> <<>>]

\* The tail both patterns share, \((\d{1,2}:\d{2}:\d{2})\):?\s*$, on a trimmed line:
\* the timestamp in parentheses at the end, an optional colon after it; `before` is
\* what precedes the opening parenthesis.
MatchTimestampAtEnd(trimmedLine) ==
  LET t == IF trimmedLine # <<>> /\ trimmedLine[Len(trimmedLine)] = ":"
           THEN SubSeq(trimmedLine, 1, Len(trimmedLine) - 1) ELSE trimmedLine
      fits(k) == /\ Len(t) >= k + 2
                 /\ t[Len(t)] = ")"
                 /\ t[Len(t) - k - 1] = "("
                 /\ IsTimestamp(SubSeq(t, Len(t) - k, Len(t) - 1))
      found(k) == [matched |-> TRUE, before |-> SubSeq(t, 1, Len(t) - k - 2),
                   timestamp |-> SubSeq(t, Len(t) - k, Len(t) - 1)]
  IN IF fits(8) THEN found(8) ELSE IF fits(7) THEN found(7) ELSE NoMatch

\* /^(.+?)\s*\((\d{1,2}:\d{2}:\d{2})\):?\s*$/ : at least one character before the
\* parenthesis.
speakerTimestampRegex(trimmedLine) ==
  LET m == MatchTimestampAtEnd(trimmedLine)
  IN IF m.matched /\ m.before # <<>> THEN m ELSE NoMatch

\* /^\((\d{1,2}:\d{2}:\d{2})\):?\s*$/ : nothing before the parenthesis.
timestampOnlyRegex(trimmedLine) ==
  LET m == MatchTimestampAtEnd(trimmedLine)
  IN IF m.matched /\ m.before = <<>> THEN m ELSE NoMatch

W_Unknown == <<"U","n","k","n","o","w","n">>
T_00 == <<"0","0",":","0","0",":","0","0">>

\* Variant: the locals start empty instead of 'Unknown' and '00:00:00'.
ParserStart_NoDefaults(body) ==
  [pc |-> "lines", body |-> body, lines |-> Split(body, "\n"),
   currentSpeaker |-> <<>>, currentTimestamp |-> <<>>,
   currentTimestampSeconds |-> 0, currentText |-> <<>>, segments |-> <<>>]

\* The locals before the loop.
ParserStart(body) ==
  [pc |-> "lines", body |-> body, lines |-> Split(body, "\n"),
   currentSpeaker |-> W_Unknown, currentTimestamp |-> T_00,
   currentTimestampSeconds |-> 0, currentText |-> <<>>, segments |-> <<>>]

\* Variant: a segment is pushed whether or not text is pending.
Flush_Always(st) ==
  [st EXCEPT
     !.segments = Append(@, Seg(st.currentSpeaker, st.currentTimestamp,
                                st.currentTimestampSeconds,
                                Trim(Join(st.currentText, <<" ">>)))),
     !.currentText = <<>>]

\* `if (currentText.length > 0) { segments.push({...}); currentText = []; }`
Flush(st) ==
  IF Len(st.currentText) > 0
  THEN [st EXCEPT
          !.segments = Append(@, Seg(st.currentSpeaker, st.currentTimestamp,
                                     st.currentTimestampSeconds,
                                     Trim(Join(st.currentText, <<" ">>)))),
          !.currentText = <<>>]
  ELSE st

\* One turn of the loop over the lines.
ParseLine(st, line) ==
  LET trimmedLine == Trim(line)
      speakerMatch == speakerTimestampRegex(trimmedLine)
      timestampMatch == timestampOnlyRegex(trimmedLine)
  IN IF trimmedLine = <<>> THEN st
     ELSE IF speakerMatch.matched
       THEN [Flush(st) EXCEPT
               !.currentSpeaker = Trim(speakerMatch.before),
               !.currentTimestamp = speakerMatch.timestamp,
               !.currentTimestampSeconds = parseTimestamp(speakerMatch.timestamp)]
     ELSE IF timestampMatch.matched
       THEN [Flush(st) EXCEPT
               !.currentTimestamp = timestampMatch.timestamp,
               !.currentTimestampSeconds = parseTimestamp(timestampMatch.timestamp)]
     ELSE IF Head(trimmedLine) # "#"
       THEN [st EXCEPT !.currentText = Append(@, trimmedLine)]
     ELSE st

RECURSIVE ParseLines(_, _)
ParseLines(st, lines) ==
  IF lines = <<>> THEN st ELSE ParseLines(ParseLine(st, Head(lines)), Tail(lines))

\* parseTranscriptBody(body)
parseTranscriptBody(body) ==
  Flush(ParseLines(ParserStart(body), Split(body, "\n"))).segments

\* The lines transcripts are made of.
Line_speaker == W_Al \o <<" ", "(">> \o T_05 \o <<")", ":">>
Line_speakerBare == W_Bo \o <<" ", " ", "(", "0", ":", "0", "1", ":", "0", "0", ")">>
Line_timestamp == <<"(">> \o T_12 \o <<")", ":">>
Line_text == W_fit
Line_padded == <<" ">> \o W_grow \o <<" ">>
Line_inline == Line_speaker \o <<" ">> \o W_lean
Line_heading == <<"#", " ">> \o W_fit
Line_blank == <<" ">>
Line_headingHeader == <<"#", " ">> \o Line_speaker

Lines ==
  {Line_speaker, Line_speakerBare, Line_timestamp, Line_text, Line_padded,
   Line_inline, Line_heading, Line_blank, Line_headingHeader}

MaxBodyLines == 4

\* The transcript bodies: up to MaxBodyLines lines joined by newlines.
Bodies ==
  {Join(ls, <<"\n">>) : ls \in UNION {[1..n -> Lines] : n \in 0..MaxBodyLines}}

\* parseTranscriptBody is called with a body.
ParseStart ==
  /\ parser.pc = "idle"
  /\ \E body \in Bodies : parser' = ParserStart(body)
  /\ UNCHANGED <<serving, loader, server>>

\* The loop takes the next line.
ParseNextLine ==
  /\ parser.pc = "lines"
  /\ parser.lines # <<>>
  /\ parser' = [ParseLine(parser, Head(parser.lines)) EXCEPT !.lines = Tail(parser.lines)]
  /\ UNCHANGED <<serving, loader, server>>

\* After the loop: the last segment, and the return.
ParseReturn ==
  /\ parser.pc = "lines"
  /\ parser.lines = <<>>
  /\ parser' = [Flush(parser) EXCEPT !.pc = "returned"]
  /\ UNCHANGED <<serving, loader, server>>

NextParse == ParseStart \/ ParseNextLine \/ ParseReturn

SpecParse == Init /\ [][NextParse]_vars

-----------------------------------------------------------------------------
(* loadTranscript, loadAllTranscripts: transcript files to episodes *)

\* What a transcript file holds: whether readFile succeeds, whether the front
\* matter parses, the guest and title of the front matter, and the body.
FileContent(readable, wellFormed, guest, title, body) ==
  [readable |-> readable, wellFormed |-> wellFormed,
   guest |-> guest, title |-> title, body |-> body]

Content_unreadable == FileContent(FALSE, FALSE, NoString, NoString, <<>>)
Content_malformed == FileContent(TRUE, FALSE, NoString, NoString, Line_text)
Content_one ==
  FileContent(TRUE, TRUE, Some(W_Bo), Some(W_fit),
              Join(<<Line_speakerBare, Line_text>>, <<"\n">>))
Content_bare ==
  FileContent(TRUE, TRUE, NoString, NoString,
              Join(<<Line_text, Line_speaker, Line_padded>>, <<"\n">>))
Content_headerOnly ==
  FileContent(TRUE, TRUE, Some(W_Al), Some(W_grow), Line_speaker)
Content_empty == FileContent(TRUE, TRUE, Some(W_Len), NoString, <<>>)

FileContents ==
  {Content_unreadable, Content_malformed, Content_one, Content_bare,
   Content_headerOnly, Content_empty}

\* The episode folders: path.basename(path.dirname(filePath)).
FolderNames == {<<"a","l">>, <<"b","o">>, <<"l","e","n">>}

MaxFiles == 3

\* What glob finds: up to MaxFiles transcript files, each in a folder of its own,
\* in any order.
Directories ==
  UNION {{d \in [1..n -> [folderName : FolderNames, content : FileContents]] :
            \A i, j \in 1..n : d[i].folderName = d[j].folderName => i = j}
         : n \in 0..MaxFiles}

Null == [isNull |-> TRUE, folderName |-> <<>>, guest |-> <<>>, title |-> <<>>,
         segments |-> <<>>]

\* loadTranscript(filePath): the episode, or null when reading or parsing throws.
loadTranscript(file) ==
  IF ~file.content.readable \/ ~file.content.wellFormed THEN Null
  ELSE [isNull |-> FALSE,
        folderName |-> file.folderName,
        guest |-> OrDefault(file.content.guest, W_Unknown),
        title |-> OrDefault(file.content.title, W_Unknown),
        segments |-> parseTranscriptBody(file.content.body)]

\* Variant: every episode that loaded is kept.
KeepEpisode_Loaded(episode) == ~episode.isNull

\* `if (episode && episode.segments.length > 0)`
KeepEpisode(episode) == ~episode.isNull /\ Len(episode.segments) > 0

\* The episode as loadAllTranscripts hands it on.
Episode(e) ==
  [folderName |-> e.folderName, guest |-> e.guest, title |-> e.title,
   segments |-> e.segments]

\* One turn of the loop over the files.
LoadFile(episodes, file) ==
  LET episode == loadTranscript(file)
  IN IF KeepEpisode(episode) THEN Append(episodes, Episode(episode)) ELSE episodes

RECURSIVE LoadFiles(_, _)
LoadFiles(episodes, files) ==
  IF files = <<>> THEN episodes
  ELSE LoadFiles(LoadFile(episodes, Head(files)), Tail(files))

\* loadAllTranscripts(dataDir), given what glob finds there.
loadAllTranscripts(files) == LoadFiles(<<>>, files)

\* loadAllTranscripts is called: glob lists the files.
LoadStart ==
  /\ loader.pc = "idle"
  /\ \E files \in Directories :
       loader' = [pc |-> "files", found |-> files, files |-> files, episodes |-> <<>>]
  /\ UNCHANGED <<serving, parser, server>>

\* The loop takes the next file.
LoadNextFile ==
  /\ loader.pc = "files"
  /\ loader.files # <<>>
  /\ loader' = [loader EXCEPT !.episodes = LoadFile(@, Head(loader.files)),
                              !.files = Tail(@)]
  /\ UNCHANGED <<serving, parser, server>>

\* After the loop: the episodes are returned.
LoadReturn ==
  /\ loader.pc = "files"
  /\ loader.files = <<>>
  /\ loader' = [loader EXCEPT !.pc = "returned"]
  /\ UNCHANGED <<serving, parser, server>>

NextLoad == LoadStart \/ LoadNextFile \/ LoadReturn

SpecLoad == Init /\ [][NextLoad]_vars

-----------------------------------------------------------------------------
(* Startup of the three server entry points *)

\* What loadAllTranscripts can return at startup, over the directories.
LoadResults == {loadAllTranscripts(d) : d \in Directories}

MaxRequests == 2

\* The index, as startup and the request handlers hold it: the episodes it was
\* built from.
IndexOf(episodes) == [has |-> TRUE, v |-> episodes]

\* An answer to a search request: the HTTP status, or 200 for a tool result,
\* and the episodes searched.
Answer(status, index) == [status |-> status, episodes |-> index.v]

\* main() of a server that loads before it listens: an empty load ends the
\* process with exit code 1 (directly, or by the throw caught at the call of
\* main), anything else builds the index and starts to listen.
Main(entry, episodes) ==
  IF Len(episodes) = 0
  THEN [ServerOff EXCEPT !.entry = entry, !.pc = "exited", !.emptyLoad = TRUE]
  ELSE [ServerOff EXCEPT !.entry = entry, !.pc = "listening",
                         !.search = IndexOf(episodes)]

\* The stdio MCP server starts.
StartStdio ==
  /\ server.pc = "off"
  /\ \E episodes \in LoadResults : server' = Main("stdio", episodes)
  /\ UNCHANGED <<serving, parser, loader>>

\* The HTTP MCP server starts.
StartHttp ==
  /\ server.pc = "off"
  /\ \E episodes \in LoadResults : server' = Main("http", episodes)
  /\ UNCHANGED <<serving, parser, loader>>

\* The HTTP wrapper starts: it listens at once, `search` is null.
StartWrapper ==
  /\ server.pc = "off"
  /\ server' = [ServerOff EXCEPT !.entry = "wrapper", !.pc = "listening"]
  /\ UNCHANGED <<serving, parser, loader>>

\* A request is answered: counted, and counted again once a load was empty.
Answered(srv, status) ==
  [srv EXCEPT !.requests = @ + 1,
              !.sinceEmpty = IF srv.emptyLoad THEN @ + 1 ELSE @,
              !.answer = Answer(status, srv.search)]

\* A search request to a server that loaded before it listened: the index of
\* main() answers it.
SearchLoaded ==
  /\ server.pc = "listening"
  /\ server.entry \in {"stdio", "http"}
  /\ server.requests < MaxRequests
  /\ server' = Answered(server, 200)
  /\ UNCHANGED <<serving, parser, loader>>

\* ensureIndexReady(): the index held, or a load; an empty load throws and
\* leaves `search` null.
ensureIndexReady(srv, episodes) ==
  IF srv.search.has THEN [threw |-> FALSE, srv |-> srv]
  ELSE IF Len(episodes) = 0
    THEN [threw |-> TRUE, srv |-> [srv EXCEPT !.emptyLoad = TRUE]]
  ELSE [threw |-> FALSE, srv |-> [srv EXCEPT !.search = IndexOf(episodes)]]

\* POST /search on the wrapper: 400 without a query, 500 when ensureIndexReady
\* throws, 200 otherwise.
SearchWrapper ==
  /\ server.pc = "listening"
  /\ server.entry = "wrapper"
  /\ server.requests < MaxRequests
  /\ \E hasQuery \in BOOLEAN, episodes \in LoadResults :
       IF ~hasQuery THEN server' = Answered(server, 400)
       ELSE \E ready \in {ensureIndexReady(server, episodes)} :
              server' = Answered(ready.srv, IF ready.threw THEN 500 ELSE 200)
  /\ UNCHANGED <<serving, parser, loader>>

NextStartup ==
  StartStdio \/ StartHttp \/ StartWrapper \/ SearchLoaded \/ SearchWrapper

SpecStartup == Init /\ [][NextStartup]_vars

-----------------------------------------------------------------------------
(* The HTTP wrapper under concurrent requests: a /search handler is suspended  *)
(* at `await loadAllTranscripts(dataDir)` while other requests arrive.         *)
(* `pending` counts the handlers suspended there, `loads` and `builds` the     *)
(* calls of loadAllTranscripts and buildSearchIndex, `current` numbers the     *)
(* index `search` holds by the build that made it, `served` lists the indexes  *)
(* the 200 answers were computed from.                                         *)

\* A request is answered with 200 from the index numbered `build`.
Served(srv, build) ==
  [Answered(srv, 200) EXCEPT !.served = Append(@, build)]

\* POST /search arrives: 400 without a query; with `search` set the request is
\* answered from it; with `search` null the handler calls loadAllTranscripts and
\* is suspended.
WrapperArrive ==
  /\ server.pc = "listening"
  /\ server.entry = "wrapper"
  /\ server.requests + server.pending < MaxRequests
  /\ \E hasQuery \in BOOLEAN :
       server' = IF ~hasQuery THEN Answered(server, 400)
                 ELSE IF server.search.has THEN Served(server, server.current)
                 ELSE [server EXCEPT !.pending = @ + 1, !.loads = @ + 1]
  /\ UNCHANGED <<serving, parser, loader>>

\* loadAllTranscripts returns to a suspended handler: an empty load throws and
\* the request is answered with 500; otherwise the handler builds an index,
\* assigns it to `search` and answers from it.
WrapperLoaded ==
  /\ server.pc = "listening"
  /\ server.entry = "wrapper"
  /\ server.pending > 0
  /\ \E episodes \in LoadResults :
       server' =
         IF Len(episodes) = 0
         THEN Answered([server EXCEPT !.pending = @ - 1, !.emptyLoad = TRUE], 500)
         ELSE Served([server EXCEPT !.pending = @ - 1,
                                    !.builds = @ + 1,
                                    !.current = server.builds + 1,
                                    !.search = IndexOf(episodes)],
                     server.builds + 1)
  /\ UNCHANGED <<serving, parser, loader>>

NextLazy == StartWrapper \/ WrapperArrive \/ WrapperLoaded

SpecLazy == Init /\ [][NextLazy]_vars

-----------------------------------------------------------------------------
(* getRandomSegment: the random_wisdom tool *)

GoodLength == 100
TopicLimit == 50
TopicMinScore == 5

RECURSIVE Repeat(_, _)
Repeat(s, n) == IF n = 0 THEN <<>> ELSE s \o Repeat(s, n - 1)

\* Segment texts of 100, 99 and 105 characters.
Text_100 == Repeat(W_grow \o SP, 20)
Text_99 == SubSeq(Text_100, 1, 99)
Text_105 == Repeat(W_lean \o SP, 21)

Ep_long ==
  [folderName |-> <<"a","l">>, guest |-> W_Al, title |-> W_grow,
   segments |-> << Seg(W_Al, T_05, 5, Text_100) >>]
Ep_short ==
  [folderName |-> <<"b","o">>, guest |-> W_Bo, title |-> W_fit,
   segments |-> << Seg(W_Bo, T_05, 5, Text_99), Seg(W_Len, T_12, 12, W_fit) >>]
Ep_mixed ==
  [folderName |-> <<"l","e","n">>, guest |-> W_Len, title |-> W_lean,
   segments |-> << Seg(W_Len, T_05, 5, Text_99), Seg(W_Al, T_12, 12, Text_100),
                   Seg(W_Len, T_30, 30, Text_105) >>]
Ep_brief ==
  [folderName |-> <<"f","i","t">>, guest |-> W_Unknown, title |-> W_Unknown,
   segments |-> << Seg(W_Unknown, T_00, 0, W_grow) >>]

MaxEpisodes == 3

\* The indexes random_wisdom is asked without a topic: up to MaxEpisodes of the
\* episodes above, in any order, and the corpus.
RandomIndexes ==
  UNION {{ix \in [1..n -> {Ep_long, Ep_short, Ep_mixed, Ep_brief}] :
            \A i, j \in 1..n : ix[i] = ix[j] => i = j}
         : n \in 1..MaxEpisodes}
  \cup {Corpus}

\* The topics: none, the empty string, a query.
Topics == {NoString, Some(<<>>)} \cup {Some(q) : q \in SearchQueries}

NullResult == [isNull |-> TRUE, episode |-> 0, segment |-> 0, score |-> 0]

RandomResult(episode, segment, score) ==
  [isNull |-> FALSE, episode |-> episode, segment |-> segment, score |-> score]

\* episodes[Math.floor(Math.random() * episodes.length)]: any position.
RandomEpisodes(episodes) == 1..Len(episodes)

\* getRandomSegment(index, topic): every result Math.random can lead to. With a
\* topic the index is the corpus', which searchIndex answers for; episodes and
\* segments are given by position.
getRandomSegment(episodes, topic) ==
  IF topic.has /\ topic.v # <<>>
  THEN LET results == searchIndex(topic.v, NoString, Some(TopicLimit),
                                  Some(TopicMinScore)).results
       IN IF Len(results) = 0 THEN {NullResult}
          ELSE {RandomResult(results[i].episode, results[i].segment, results[i].score)
                  : i \in 1..Len(results)}
  ELSE IF Len(episodes) = 0 THEN {NullResult}
  ELSE UNION
    {LET goodSegments == {i \in 1..Len(episodes[e].segments) :
                            Len(episodes[e].segments[i].text) >= GoodLength}
     IN IF goodSegments = {} THEN {NullResult}
        ELSE {RandomResult(e, i, 100) : i \in goodSegments}
     : e \in RandomEpisodes(episodes)}

RandomCall(index, topic) ==
  [tool |-> "random_wisdom", topic |-> topic, index |-> index]

\* random_wisdom is called, with or without a topic.
Random_wisdom ==
  /\ \E index \in RandomIndexes, topic \in Topics :
       /\ (topic.has /\ topic.v # <<>>) => index = Corpus
       /\ \E result \in getRandomSegment(index, topic) :
            /\ call' = RandomCall(index, topic)
            /\ resp' = result
  /\ UNCHANGED <<sessionCandidates, hist, load>>
  /\ UNCHANGED ingestion

NextRandom == Random_wisdom

SpecRandom == Init /\ [][NextRandom]_vars

-----------------------------------------------------------------------------
(* The cache workload with its stores in time order *)

MaxRestores == 1

\* The key was stored now: it is the newest, and the newest MaxSessions remain.
Touch(recent, key) ==
  LET stores == Append(SelectSeq(recent, LAMBDA k : k # key), key)
  IN IF Len(stores) > MaxSessions
     THEN SubSeq(stores, Len(stores) - MaxSessions + 1, Len(stores))
     ELSE stores

\* The filter-phase call of a session not opened before.
RecentOpen ==
  /\ load.opened < NumSessions
  /\ SessionFilter(load.opened + 1)
  /\ load' = [load EXCEPT !.opened = @ + 1,
                          !.recent = Touch(@, SessionKey(load.opened + 1))]

\* A repeated filter-phase call of a session that is still cached.
RecentStoreAgain ==
  /\ load.restored < MaxRestores
  /\ \E i \in 1..load.opened :
       /\ MapHas(sessionCandidates, SessionKey(i))
       /\ SessionFilter(i)
       /\ load' = [load EXCEPT !.restored = @ + 1,
                               !.recent = Touch(@, SessionKey(i))]

\* A complete-phase call that selects candidate 0 of a cached session.
RecentConsume ==
  /\ load.consumed < MaxDetours
  /\ \E i \in 1..load.opened :
       /\ MapHas(sessionCandidates, SessionKey(i))
       /\ SessionComplete(i, <<0>>)
       /\ load' = [load EXCEPT !.consumed = @ + 1,
                               !.recent = SelectSeq(@, LAMBDA k : k # SessionKey(i))]

NextRecent == RecentOpen \/ RecentStoreAgain \/ RecentConsume

SpecRecent == Init /\ [][NextRecent]_vars

-----------------------------------------------------------------------------
(* The filter phase over a corpus large enough for the cap of 30 *)

MaxMerged == 32

\* The result maps of such a corpus after the merge: n hits with keys of their
\* own (hit i is segment 1 of episode i), scores following a pattern.
MergedValues(n, a, b) ==
  [i \in 1..n |-> [episode |-> i, segment |-> 1, score |-> 5 + ((a * i + b) % 11)]]

MergedLists ==
  {MergedValues(n, a, b) :
     n \in {1} \cup ((MaxCandidates - 1)..MaxMerged), a \in {0, 1, 7}, b \in {0, 3}}

\* A filter-phase call whose merge left `values` in the result map.
CapFilterCall ==
  /\ \E values \in MergedLists, terms \in {<<W_grow>>} :
       \E out \in {FilterFrom(sessionCandidates, W_fit, terms, SortAndCap(values))} :
         LET params == Params(W_fit, NoString, None, None, Some(terms), NoString)
         IN /\ call' = SmartCall(params)
            /\ resp' = out.resp
            /\ sessionCandidates' = out.cache
            /\ hist' = [NextHist(params, sessionCandidates, out.cache) EXCEPT
                          !.searched = out.searched]
            /\ load' = [load EXCEPT !.merged = values]
  /\ UNCHANGED ingestion

NextCap == CapFilterCall

SpecCap == Init /\ [][NextCap]_vars

-----------------------------------------------------------------------------
(* Clients that share the server: filter and complete calls in any order *)

\* The filter-phase calls of the clients: one query, with or without a term,
\* with and without a guest.
ClientFilters ==
  {c \in FilterCalls : c.search.query = W_fit /\ c.search.terms \in {<<>>, <<W_grow>>}}

\* selected_indices of the clients, in halves: [0], [0, 1, 2].
ClientPicks == {<<0>>, <<0, 2, 4>>}

ClientGuests == {NoString, Some(Guest_bo)}

\* The candidates a response lists: none unless its phase is 'filter'.
ListedBy(response) ==
  IF response.phase = "filter" THEN response.candidates.v ELSE <<>>

\* A client's filter-phase call.
ClientFilter ==
  \E c \in ClientFilters :
    /\ Smart(Params(c.search.query, c.filter.guest, None, c.filter.minScore,
                    Some(c.search.terms), NoString))
    /\ load' = [load EXCEPT
                  !.latest = MapSet(@, <<c.search.query, c.search.terms>>, ListedBy(resp')),
                  !.filtered = IF c.filter.guest.has
                               THEN @ \cup {<<c.search.query, c.search.terms, c.filter.guest.v>>}
                               ELSE @]

\* A client's complete-phase call, with the guest of its search.
ClientComplete ==
  /\ \E c \in ClientFilters, g \in ClientGuests, p \in ClientPicks :
       Smart(Params(c.search.query, g, None, None, Some(c.search.terms), Some(p)))
  /\ UNCHANGED load

NextClients == ClientFilter \/ ClientComplete

SpecClients == Init /\ [][NextClients]_vars

-----------------------------------------------------------------------------
(* getSessionKey over queries and terms that hold ',' and '::' *)

KeyQueries == {<<"a">>, <<"a", ":", ":", "b">>, <<"a", ",", "b">>}

KeyTerms ==
  {<<>>, <<<<"b">>>>, <<<<"e">>>>, <<<<"b">>, <<"e">>>>, <<<<"e">>, <<"b">>>>,
   <<<<"b", ",", "e">>>>, <<<<"b", ":", ":">>>>, <<<<"b">>, <<"b">>>>}

KeyCall(first, second) == [tool |-> "getSessionKey", first |-> first, second |-> second]

\* The session keys of two searches.
SessionKeys ==
  /\ \E q1 \in KeyQueries, t1 \in KeyTerms, q2 \in KeyQueries, t2 \in KeyTerms :
       /\ call' = KeyCall(Search(q1, t1), Search(q2, t2))
       /\ resp' = [first |-> getSessionKey(q1, t1), second |-> getSessionKey(q2, t2)]
  /\ UNCHANGED <<sessionCandidates, hist, load>>
  /\ UNCHANGED ingestion

NextKeys == SessionKeys

SpecKeys == Init /\ [][NextKeys]_vars

-----------------------------------------------------------------------------
(* Properties *)

IsSmart == call.tool = "search_quotes_smart"
IsSearch == call.tool = "search_quotes"

\* C1: the phase smartSearch runs depends only on which of expandedTerms and
\* selectedIndices are supplied (an empty array is supplied): neither -> expand;
\* expandedTerms only -> filter, answering 'filter' or, without candidates,
\* 'complete' with resultCount 0; both -> complete, and the response it returns has
\* phase 'complete'.
C1_PhaseFromArguments ==
  IsSmart =>
    LET terms == call.expandedTerms.has
        picked == call.selectedIndices.has
    IN /\ (~terms /\ ~picked) => (hist.ran = "expand" /\ resp.phase = "expand")
       /\ (terms /\ ~picked) =>
            /\ hist.ran = "filter"
            /\ \/ resp.phase = "filter"
               \/ (resp.phase = "complete" /\ resp.resultCount = Some(0)
                   /\ resp.message = "No quotes found")
       /\ (terms /\ picked) =>
            /\ hist.ran = "complete"
            /\ ~resp.threw => (resp.phase = "complete" /\ resp.message # "No quotes found")

\* A complete-phase call whose two arrays are both empty.
C1_Witness ==
  /\ IsSmart
  /\ call.expandedTerms = Some(<<>>)
  /\ call.selectedIndices = Some(<<>>)
  /\ hist.ran = "complete"
  /\ resp.phase = "complete"

\* C2: the cache never holds more than 10 entries; a filter call that stores a new
\* key into a full cache evicts exactly the key that entered the cache first, and the
\* new key and the 9 other keys stay; no other filter call removes anything.
C2_CacheBound ==
  /\ Len(sessionCandidates) <= MaxSessions
  /\ (IsSmart /\ hist.ran = "filter" /\ resp.phase = "filter") =>
       /\ hist.key \in KeySet(sessionCandidates)
       /\ IF hist.key \notin hist.before /\ Cardinality(hist.before) = MaxSessions
          THEN /\ hist.removed = {hist.oldest}
               /\ hist.oldest \in hist.before
               /\ KeySet(sessionCandidates) = (hist.before \ {hist.oldest}) \cup {hist.key}
               /\ Cardinality(KeySet(sessionCandidates)) = MaxSessions
          ELSE hist.removed = {}

\* An eleventh key was stored and a key was evicted.
C2_Witness ==
  /\ IsSmart
  /\ hist.ran = "filter"
  /\ hist.added = {hist.key}
  /\ Cardinality(hist.before) = MaxSessions
  /\ hist.removed # {}
  /\ Len(sessionCandidates) = MaxSessions

\* A complete-phase call that found a candidate list cached under its session key.
FoundSession == IsSmart /\ hist.ran = "complete" /\ hist.key \in hist.before

\* C3: after a complete-phase call that finds a cached candidate list for its
\* session key, that key is no longer in the cache.
C3_ConsumedSessionDeleted ==
  FoundSession => hist.key \notin KeySet(sessionCandidates)

Min(a, b) == IF a < b THEN a ELSE b

\* The candidates at the in-range entries of `selected` (in halves), in the order of
\* `selected`, the first `limit` of them: the k-th is the candidate at the k-th
\* in-range entry.
QuotesExpected(candidates, selected, limit) ==
  LET valid == {i \in 1..Len(selected) :
                  selected[i] >= 0 /\ selected[i] < 2 * Len(candidates)}
      rank(i) == Cardinality({j \in valid : j <= i})
      at(k) == selected[CHOOSE i \in valid : rank(i) = k]
  IN [k \in 1..Min(limit, Cardinality(valid)) |-> candidates[(at(k) \div 2) + 1]]

\* C4: a complete-phase call that finds n cached candidates and returns a response
\* returns exactly the candidates at the selected indices i with 0 <= i < n, in the
\* caller's order, cut to the first `limit` of them (5 by default); out-of-range
\* indices neither fail nor use up the limit; resultCount is the number of quotes.
C4_SelectedQuotes ==
  (FoundSession /\ ~resp.threw) =>
    LET expected == QuotesExpected(hist.found, call.selectedIndices.v,
                                   OrDefault(call.limit, DefaultSmartLimit))
    IN /\ resp.phase = "complete"
       /\ resp.quotes = expected
       /\ resp.resultCount = Some(Len(expected))

\* Indices [99, 2] against 5 candidates: one quote, candidate 2.
C4_Witness ==
  /\ FoundSession
  /\ Len(hist.found) = 5
  /\ call.selectedIndices = Some(<<198, 4>>)
  /\ resp.resultCount = Some(1)
  /\ resp.quotes = <<hist.found[3]>>

\* C5: a complete-phase call whose session key is not in the cache returns an
\* ordinary response with phase 'complete', resultCount 0 and the session-expired
\* message, throws nothing and leaves the cache as it was.
C5_SessionExpired ==
  (IsSmart /\ hist.ran = "complete" /\ hist.key \notin hist.before) =>
    /\ ~resp.threw
    /\ resp.phase = "complete"
    /\ resp.resultCount = Some(0)
    /\ resp.message = "Session expired"
    /\ resp.quotes = <<>>
    /\ ~hist.changed

\* A session consumed by one complete-phase call and asked for again, while other
\* sessions are cached.
C5_Witness ==
  /\ IsSmart
  /\ hist.ran = "complete"
  /\ hist.key \notin hist.before
  /\ hist.before # {}
  /\ call.selectedIndices = Some(<<198, 4>>)
  /\ resp.message = "Session expired"

\* The last call was a filter-phase call that merged no candidate, or a
\* complete-phase call none of whose selected indices is valid for the cached list.
ZeroResultCall ==
  /\ IsSmart
  /\ \/ /\ hist.ran = "filter"
        /\ AllResultsOf[<<call.query, call.expandedTerms.v, call.guest,
                          OrDefault(call.minScore, DefaultSmartMinScore)>>] = <<>>
     \/ /\ FoundSession
        /\ \A i \in 1..Len(call.selectedIndices.v) :
             ~InBounds(call.selectedIndices.v[i], Len(hist.found))

ZeroResultResponse ==
  /\ ~resp.threw
  /\ resp.phase = "complete"
  /\ resp.resultCount = Some(0)
  /\ resp.message \in {"No quotes found", "No relevant quotes found"}

\* C6: a filter-phase call without merged candidates and a complete-phase call
\* without a valid selected index answer phase 'complete', resultCount 0 and a
\* no-results message, a response of phase 'filter' never has an empty candidate
\* list, and the call that follows for the same query and terms obtains no quotes.
C6_ZeroResultTerminates ==
  [][ /\ ZeroResultCall => ZeroResultResponse
      /\ resp.phase = "filter" => resp.candidates.v # <<>>
      /\ (ZeroResultCall /\ call'.query = call.query
            /\ call'.expandedTerms = call.expandedTerms)
           => resp'.quotes = <<>> ]_vars

\* The hits of the original query and of every expanded term of the last call.
TermsSearched == <<call.query>> \o call.expandedTerms.v

HitsOf(term) ==
  searchIndex(term, call.guest, Some(PerTermLimit),
              Some(OrDefault(call.minScore, DefaultSmartMinScore))).results

Hits == UNION {{HitsOf(TermsSearched[t])[i] : i \in 1..Len(HitsOf(TermsSearched[t]))} :
                 t \in 1..Len(TermsSearched)}

\* The list a filter-phase call has stored.
Stored == MapGet(sessionCandidates, hist.key)

\* C7: the list a filter-phase call stores holds at most one candidate per
\* (folderName, timestamp) key, one for every key that was hit, and the score of
\* each is the maximum of the scores of the hits with its key over all terms.
C7_MergeKeepsMaximum ==
  (IsSmart /\ hist.ran = "filter" /\ resp.phase = "filter") =>
    /\ \A i, j \in 1..Len(Stored) : MergeKey(Stored[i]) = MergeKey(Stored[j]) => i = j
    /\ \A h \in Hits : \E i \in 1..Len(Stored) : MergeKey(Stored[i]) = MergeKey(h)
    /\ \A i \in 1..Len(Stored) :
         /\ \E h \in Hits : MergeKey(h) = MergeKey(Stored[i]) /\ h.score = Stored[i].score
         /\ \A h \in Hits : MergeKey(h) = MergeKey(Stored[i]) => h.score <= Stored[i].score

\* A key hit under two terms, the later hit with the lower score.
C7_Witness ==
  /\ IsSmart /\ hist.ran = "filter" /\ resp.phase = "filter"
  /\ Len(TermsSearched) >= 2
  /\ \E a \in 1..Len(HitsOf(TermsSearched[1])), b \in 1..Len(HitsOf(TermsSearched[2])) :
       LET first == HitsOf(TermsSearched[1])[a]
           later == HitsOf(TermsSearched[2])[b]
       IN /\ MergeKey(first) = MergeKey(later)
          /\ later.score < first.score
          /\ \E i \in 1..Len(Stored) : Stored[i] = first

\* C8: smartSearch returns a response for every call, whatever the selected indices.
C8_NeverThrows == IsSmart => ~resp.threw

\* e is s with a backslash put before each of + - : ^ ~ * and nothing else changed.
IsEscapeOf(e, s) ==
  LET special(i) == s[i] \in {"+", "-", ":", "^", "~", "*"}
      at(i) == i + Cardinality({j \in 1..i : special(j)})
  IN /\ Len(e) = Len(s) + Cardinality({j \in 1..Len(s) : special(j)})
     /\ \A i \in 1..Len(s) :
          /\ e[at(i)] = s[i]
          /\ special(i) => e[at(i) - 1] = "\\"

\* C9: searchIndex throws nothing; it hands the engine the query, with the guest
\* token or without; when the engine accepts it, nothing else; when the engine
\* rejects it, once more the original query with + - : ^ ~ * escaped, and when this
\* is rejected too the result is empty.
C9_SearchIsTotal ==
  IsSearch =>
    /\ ~resp.threw
    /\ Len(resp.attempts) \in {1, 2}
    /\ \/ resp.attempts[1] = call.query
       \/ /\ call.guest.has
          /\ resp.attempts[1] = call.query \o <<" ", "g", "u", "e", "s", "t", ":">> \o call.guest.v
    /\ Len(resp.attempts) = 2 <=> EngineSearch(resp.attempts[1]).threw
    /\ Len(resp.attempts) = 2 =>
         /\ IsEscapeOf(resp.attempts[2], call.query)
         /\ EngineSearch(resp.attempts[2]).threw => resp.results = <<>>

\* A query the engine rejects as it is and escaped.
C9_Witness ==
  /\ IsSearch
  /\ Len(resp.attempts) = 2
  /\ EngineSearch(resp.attempts[1]).threw
  /\ EngineSearch(resp.attempts[2]).threw
  /\ resp.attempts[2] # resp.attempts[1]
  /\ resp.results = <<>>

\* C10: searchIndex called with a limit k >= 0 returns at most k results.
C10_AtMostLimit ==
  (IsSearch /\ call.limit.has /\ call.limit.v >= 0) => Len(resp.results) <= call.limit.v

\* The engine's ranked hits for the query searchIndex used last.
EngineHits == EngineSearch(resp.attempts[Len(resp.attempts)]).results

MinScoreUsed == OrDefault(call.minScore, DefaultSearchMinScore)

\* C11: no result of searchIndex has a score below minScore (the given one, or the
\* default 0.1), on the first attempt and on the escaped retry.
C11_AtLeastMinScore ==
  IsSearch => \A i \in 1..Len(resp.results) : resp.results[i].score >= MinScoreUsed

\* A retry whose hits straddle the given minScore: some returned, some dropped.
C11_Witness ==
  /\ IsSearch
  /\ call.minScore.has
  /\ Len(resp.attempts) = 2
  /\ resp.results # <<>>
  /\ \E h \in 1..Len(EngineHits) : EngineHits[h].score < call.minScore.v

GuestOverlaps(guest, episodeGuest) ==
  \/ Includes(normalizeGuestName(episodeGuest), normalizeGuestName(guest))
  \/ Includes(normalizeGuestName(guest), normalizeGuestName(episodeGuest))

\* C12: every result of a searchIndex call with guest G belongs to an episode whose
\* normalized guest contains, or is contained in, normalized G, whether or not G
\* resolves to a folder and whether or not the retry is taken.
C12_GuestFilter ==
  (IsSearch /\ call.guest.has) =>
    \A i \in 1..Len(resp.results) :
      GuestOverlaps(call.guest.v, Corpus[resp.results[i].episode].guest)

\* The guest resolves to a folder, the token is in the query, and the engine still
\* ranks a segment of another guest's episode, which is not returned.
C12_Witness ==
  /\ IsSearch
  /\ call.guest.has
  /\ resp.attempts[1] # call.query
  /\ Len(resp.attempts) = 1
  /\ resp.results # <<>>
  /\ \E h \in 1..Len(EngineHits), e \in 1..Len(Corpus) :
       /\ SubSeq(EngineHits[h].ref, 1, Len(Corpus[e].folderName)) = Corpus[e].folderName
       /\ ~GuestOverlaps(call.guest.v, Corpus[e].guest)

\* The episode and segment position a document reference stands for.
HitAt(ref) ==
  CHOOSE at \in UNION {{<<e, i>> : i \in 1..Len(Corpus[e].segments)} : e \in 1..Len(Corpus)} :
    ref = Corpus[at[1]].folderName \o <<":">> \o NumberToString(at[2] - 1)

\* The engine's hits that pass: score >= minScore and, with a guest, a matching one.
PassingHits ==
  SelectSeq(EngineHits,
            LAMBDA h : /\ h.score >= MinScoreUsed
                       /\ (call.guest.has /\ call.guest.v # <<>>)
                            => GuestOverlaps(call.guest.v, Corpus[HitAt(h.ref)[1]].guest))

\* C13: the output of searchIndex is the engine's ranked list restricted to the
\* passing hits, in engine order, cut to the first `limit` of them (10 by default);
\* scores never increase along it.
C13_RankedPrefix ==
  IsSearch =>
    LET limit == OrDefault(call.limit, DefaultSearchLimit)
        kept == SubSeq(PassingHits, 1, Min(limit, Len(PassingHits)))
    IN /\ Len(resp.results) = Len(kept)
       /\ \A i \in 1..Len(kept) :
            /\ resp.results[i].score = kept[i].score
            /\ <<resp.results[i].episode, resp.results[i].segment>> = HitAt(kept[i].ref)
       /\ \A i \in 1..(Len(resp.results) - 1) :
            resp.results[i].score >= resp.results[i + 1].score

\* A call with a query and neither expanded_terms nor selected_indices.
OnlyQuery ==
  /\ IsSmart
  /\ ~call.expandedTerms.has /\ ~call.selectedIndices.has
  /\ ~call.guest.has /\ ~call.limit.has /\ ~call.minScore.has

\* C14: a call with only a query returns phase 'expand' with originalQuery the query
\* and no candidates field, whatever the cache holds; it searches the index for
\* nothing and leaves the cache unchanged.
C14_ExpandIsPure ==
  OnlyQuery =>
    /\ ~resp.threw
    /\ resp.phase = "expand"
    /\ resp.originalQuery = Some(call.query)
    /\ ~resp.candidates.has /\ ~resp.candidateCount.has
    /\ resp.quotes = <<>> /\ ~resp.resultCount.has
    /\ resp.message = "instruction"
    /\ hist.searched = <<>>
    /\ ~hist.changed

\* An expand call made while sessions are cached.
C14_Witness ==
  /\ OnlyQuery
  /\ sessionCandidates # <<>>
  /\ resp.phase = "expand"
  /\ resp.originalQuery = Some(W_fit)

\* The lines of the body being parsed, by what they were written as.
BodyLines == Split(parser.body, "\n")

IsHeaderLine(l) ==
  l \in {Line_speaker, Line_speakerBare, Line_timestamp, Line_headingHeader}

IsContentLine(l) == l \in {Line_text, Line_padded, Line_inline}

\* The headers followed by a content line before the next header or the end.
HeadersWithContent ==
  {i \in 1..Len(BodyLines) :
     /\ IsHeaderLine(BodyLines[i])
     /\ \E j \in (i + 1)..Len(BodyLines) :
          /\ IsContentLine(BodyLines[j])
          /\ \A k \in (i + 1)..(j - 1) : ~IsHeaderLine(BodyLines[k])}

\* A content line comes before any header.
LeadingContent ==
  \E j \in 1..Len(BodyLines) :
    /\ IsContentLine(BodyLines[j])
    /\ \A k \in 1..(j - 1) : ~IsHeaderLine(BodyLines[k])

\* C15, as stated: parseTranscriptBody returns as many segments as there are
\* headers followed by at least one content line before the next header or the
\* end of the body.
C15_SegmentPerHeader ==
  parser.pc = "returned" =>
    Len(parser.segments) = Cardinality(HeadersWithContent)

\* C15: parseTranscriptBody returns one segment for each header followed by at
\* least one content line before the next header or the end of the body, plus
\* one segment when a content line comes before the first header; a header with
\* no content produces no segment.
C15_SegmentPerHeaderAndPreamble ==
  parser.pc = "returned" =>
    Len(parser.segments) =
      Cardinality(HeadersWithContent) + (IF LeadingContent THEN 1 ELSE 0)

\* A body with a header that has content and a header that has none was parsed.
C15_Witness ==
  /\ parser.pc = "returned"
  /\ Cardinality(HeadersWithContent) >= 1
  /\ \E i \in 1..Len(BodyLines) :
       IsHeaderLine(BodyLines[i]) /\ i \notin HeadersWithContent
  /\ Len(parser.segments) >= 1

\* C16, as stated: a body without a header line yields exactly one segment,
\* speaker "Unknown", timestamp "00:00:00", timestampSeconds 0.
C16_HeaderlessOneSegment ==
  (parser.pc = "returned" /\ \A i \in 1..Len(BodyLines) : ~IsHeaderLine(BodyLines[i])) =>
    /\ Len(parser.segments) = 1
    /\ parser.segments[1].speaker = W_Unknown
    /\ parser.segments[1].timestamp = T_00
    /\ parser.segments[1].timestampSeconds = 0

\* C16: a body without a header line and with at least one content line yields
\* exactly one segment, speaker "Unknown", timestamp "00:00:00", timestampSeconds
\* 0; a body without a header line and without a content line yields none.
C16_HeaderlessAtMostOneSegment ==
  (parser.pc = "returned" /\ \A i \in 1..Len(BodyLines) : ~IsHeaderLine(BodyLines[i])) =>
    IF \E i \in 1..Len(BodyLines) : IsContentLine(BodyLines[i])
    THEN /\ Len(parser.segments) = 1
         /\ parser.segments[1].speaker = W_Unknown
         /\ parser.segments[1].timestamp = T_00
         /\ parser.segments[1].timestampSeconds = 0
    ELSE parser.segments = <<>>

\* A body of content lines only, more than one, was parsed into its one segment.
C16_Witness ==
  /\ parser.pc = "returned"
  /\ Len(BodyLines) >= 2
  /\ \A i \in 1..Len(BodyLines) : IsContentLine(BodyLines[i])
  /\ Len(parser.segments) = 1

\* The files of the directory that read, parse and have a segment.
GoodFiles ==
  SelectSeq(loader.found,
            LAMBDA f : /\ f.content.readable
                       /\ f.content.wellFormed
                       /\ parseTranscriptBody(f.content.body) # <<>>)

\* C18: loadAllTranscripts returns exactly the files that were read and parsed
\* and have at least one segment, in discovery order; a file that fails is
\* skipped without aborting the load, and no returned episode has zero segments.
C18_LoadedExactlyGoodFiles ==
  loader.pc = "returned" =>
    /\ Len(loader.episodes) = Len(GoodFiles)
    /\ \A i \in 1..Len(GoodFiles) :
         /\ loader.episodes[i].folderName = GoodFiles[i].folderName
         /\ loader.episodes[i].segments = parseTranscriptBody(GoodFiles[i].content.body)
    /\ \A i \in 1..Len(loader.episodes) : Len(loader.episodes[i].segments) > 0

\* A directory with a failing file first, then a file without segments, then a
\* good file, was loaded: the good file is the only episode.
C18_Witness ==
  /\ loader.pc = "returned"
  /\ Len(loader.found) = 3
  /\ ~loader.found[1].content.readable
  /\ loader.found[2].content = Content_headerOnly
  /\ Len(loader.episodes) = 1
  /\ loader.episodes[1].folderName = loader.found[3].folderName

\* C17: once a load has returned zero episodes the process has exited, and no
\* search request has been answered since, whatever the entry point.
C17_EmptyLoadIsFatal ==
  server.emptyLoad => (server.pc = "exited" /\ server.sinceEmpty = 0)

IsRandom == call.tool = "random_wisdom"

HasTopic == call.topic.has /\ call.topic.v # <<>>

\* The hits of the broadened search for the topic.
TopicHits == searchIndex(call.topic.v, NoString, Some(50), Some(5)).results

\* C19, without a topic: what is returned is a segment of at least 100
\* characters, of the returned episode.
C19_ResultIsGood ==
  (IsRandom /\ ~HasTopic /\ ~resp.isNull) =>
    /\ resp.episode \in 1..Len(call.index)
    /\ resp.segment \in 1..Len(call.index[resp.episode].segments)
    /\ Len(call.index[resp.episode].segments[resp.segment].text) >= 100

\* C19, without a topic: null is returned only if no episode of the index has a
\* segment of at least 100 characters.
C19_NullOnlyWithoutGood ==
  (IsRandom /\ ~HasTopic /\ resp.isNull) =>
    \A e \in 1..Len(call.index) : \A i \in 1..Len(call.index[e].segments) :
      Len(call.index[e].segments[i].text) < 100

\* C19, with a topic: null is returned only if the broadened search (limit 50,
\* minScore 0.05) has no hit, and otherwise one of its hits is returned.
C19_TopicHit ==
  (IsRandom /\ HasTopic) =>
    IF resp.isNull THEN TopicHits = <<>>
    ELSE \E i \in 1..Len(TopicHits) :
           /\ TopicHits[i].episode = resp.episode
           /\ TopicHits[i].segment = resp.segment
           /\ TopicHits[i].score = resp.score

\* C19: getRandomSegment without a topic returns null only if no episode has a
\* segment of at least 100 characters, and a result is such a segment of the
\* returned episode; with a topic it returns null only if the broadened search
\* has no hits, and otherwise one of them.
C19_RandomSegment == C19_ResultIsGood /\ C19_NullOnlyWithoutGood /\ C19_TopicHit

\* A complete-phase call that comes right after a filter-phase call answered with
\* phase 'filter', with the same query and the same terms in some order.
CompletesListing ==
  /\ IsSmart
  /\ hist.ran = "complete"
  /\ hist.listed.has
  /\ call.query = hist.listed.query
  /\ IsPermutation(call.expandedTerms.v, hist.listed.terms)

\* C20: a complete-phase call made right after a filter-phase call that returned
\* phase 'filter', with the same query and any permutation of its terms, never
\* reports session expired, and each quote it returns for a selected index is the
\* candidate the filter response listed with that index.
C20_ProtocolProgress ==
  CompletesListing =>
    /\ resp.message # "Session expired"
    /\ ~resp.threw =>
         LET listing == hist.listed.candidates
             selected == call.selectedIndices.v
             valid == {i \in 1..Len(selected) :
                         selected[i] >= 0 /\ selected[i] < 2 * Len(listing)}
             at(k) == selected[CHOOSE i \in valid :
                                 Cardinality({j \in valid : j <= i}) = k]
         IN /\ Len(resp.quotes) =
                 Min(OrDefault(call.limit, DefaultSmartLimit), Cardinality(valid))
            /\ \A k \in 1..Len(resp.quotes) :
                 \E c \in 1..Len(listing) :
                   /\ 2 * listing[c].index = at(k)
                   /\ listing[c].episode = resp.quotes[k].episode
                   /\ listing[c].segment = resp.quotes[k].segment

\* Candidates were listed for (fit, [grow, lean]); the next call asked for
\* indices 2 and 0 with the terms as [lean, grow] and got the candidates listed
\* with 2 and 0.
C20_Witness ==
  /\ CompletesListing
  /\ hist.listed.terms = <<W_grow, W_lean>>
  /\ call.expandedTerms.v = <<W_lean, W_grow>>
  /\ call.selectedIndices.v = <<4, 0>>
  /\ Len(resp.quotes) = 2
  /\ resp.quotes[1].episode = hist.listed.candidates[3].episode
  /\ resp.quotes[1].segment = hist.listed.candidates[3].segment
  /\ resp.quotes[2].segment = hist.listed.candidates[1].segment

\* C21: the entries present are exactly the (up to 10) unconsumed sessions with
\* the most recent stores, a session stored again counting from its latest
\* store; so the entry evicted on overflow is the one stored longest ago.
C21_MostRecentlyStored ==
  load.opened > 0 =>
    KeySet(sessionCandidates) = {load.recent[i] : i \in 1..Len(load.recent)}

\* The hits of the terms searched, in the order the merge meets them: the hits
\* of the original query, then those of each expanded term in the order given.
RECURSIVE HitsInOrder(_)
HitsInOrder(terms) ==
  IF terms = <<>> THEN <<>> ELSE HitsOf(Head(terms)) \o HitsInOrder(Tail(terms))

\* C22: the filter phase searches the original query first, then the expanded
\* terms in the order given, and for each (folderName, timestamp) key it keeps
\* the first hit, in that order, among the hits of the highest score: a later
\* hit of equal score does not replace it.
C22_TieKeepsFirst ==
  (IsSmart /\ hist.ran = "filter" /\ resp.phase = "filter") =>
    /\ hist.searched = TermsSearched
    /\ LET met == HitsInOrder(TermsSearched)
       IN \A i \in 1..Len(Stored) :
            \E j \in 1..Len(met) :
              /\ met[j] = Stored[i]
              /\ \A k \in 1..Len(met) :
                   MergeKey(met[k]) = MergeKey(Stored[i]) =>
                     \/ met[k].score < met[j].score
                     \/ (met[k].score = met[j].score /\ (k >= j \/ met[k] = met[j]))

\* Two segments with the same key were hit with the same, highest, score: the one
\* met first is stored, the other is not.
C22_Witness ==
  /\ IsSmart /\ hist.ran = "filter" /\ resp.phase = "filter"
  /\ LET met == HitsInOrder(TermsSearched)
     IN \E j, k \in 1..Len(met) :
          /\ j < k
          /\ MergeKey(met[j]) = MergeKey(met[k])
          /\ met[j].segment # met[k].segment
          /\ met[j].score = met[k].score
          /\ \E i \in 1..Len(Stored) : Stored[i] = met[j]
          /\ \A i \in 1..Len(Stored) : Stored[i] # met[k]

\* The candidates the filter response lists.
Listed == resp.candidates.v

\* C23, the list: between 1 and 30 candidates, by non-increasing score, numbered
\* 0..n-1 in that order, candidateCount = n, and stored in the cache in the
\* same order.
C23_ListIsStoredList ==
  (IsSmart /\ hist.ran = "filter" /\ resp.phase = "filter") =>
    /\ Len(Listed) \in 1..30
    /\ resp.candidateCount = Some(Len(Listed))
    /\ Len(Stored) = Len(Listed)
    /\ \A i \in 1..Len(Listed) :
         /\ Listed[i].index = i - 1
         /\ Listed[i].episode = Stored[i].episode
         /\ Listed[i].segment = Stored[i].segment
    /\ \A i \in 1..(Len(Stored) - 1) : Stored[i].score >= Stored[i + 1].score

\* C23, the cap: the stored candidates are merged candidates, 30 of them when
\* more than 30 were merged, and no merged candidate left out has a higher score
\* than one that was kept.
C23_CapKeepsHighest ==
  (IsSmart /\ hist.ran = "filter" /\ resp.phase = "filter" /\ load.merged # <<>>) =>
    LET merged == {load.merged[i] : i \in 1..Len(load.merged)}
        kept == {Stored[i] : i \in 1..Len(Stored)}
    IN /\ kept \subseteq merged
       /\ Len(Stored) = Min(30, Len(load.merged))
       /\ \A out \in merged \ kept : \A in \in kept : out.score <= in.score

\* C23: a filter response with phase 'filter' lists 1 to 30 candidates by
\* non-increasing score with indices 0..n-1 and candidateCount n, the cache holds
\* the same list in the same order, and of more than 30 merged candidates the 30
\* with the highest scores are kept.
C23_ThirtyBest == C23_ListIsStoredList /\ C23_CapKeepsHighest

\* 32 candidates were merged, the highest scores among the last: 30 are listed.
C23_Witness ==
  /\ IsSmart /\ hist.ran = "filter" /\ resp.phase = "filter"
  /\ Len(load.merged) = 32
  /\ Len(Listed) = 30
  /\ \E i \in 31..32 : \E j \in 1..30 : load.merged[i].score > load.merged[j].score

\* The candidates listed by the latest filter-phase call with the query and
\* terms of the call: none when there was no such call.
LatestListed ==
  IF MapHas(load.latest, <<call.query, call.expandedTerms.v>>)
  THEN MapGet(load.latest, <<call.query, call.expandedTerms.v>>)
  ELSE <<>>

\* C24: the quotes of a complete-phase call are candidates the most recent
\* filter-phase call with its query and terms listed; if that call listed none
\* (a zero-result response), the complete-phase call returns no quotes.
C24_QuotesFromLatestFilter ==
  (IsSmart /\ hist.ran = "complete" /\ ~resp.threw) =>
    \A k \in 1..Len(resp.quotes) :
      \E c \in 1..Len(LatestListed) :
        /\ LatestListed[c].episode = resp.quotes[k].episode
        /\ LatestListed[c].segment = resp.quotes[k].segment

\* C25: a complete-phase call made with guest G, by a client whose filter-phase
\* call for the same query and terms was made with G, returns only quotes of
\* episodes whose guest matches G, whatever other filter-phase calls were made.
C25_GuestHoldsAcrossPhases ==
  (/\ IsSmart /\ hist.ran = "complete" /\ ~resp.threw
   /\ call.guest.has
   /\ <<call.query, call.expandedTerms.v, call.guest.v>> \in load.filtered) =>
    \A k \in 1..Len(resp.quotes) :
      GuestOverlaps(call.guest.v, Corpus[resp.quotes[k].episode].guest)

\* C26: two searches have the same session key only if their queries are equal
\* and their expanded terms are the same multiset, also when queries or terms
\* hold ',' or '::'.
C26_KeysInjective ==
  (call.tool = "getSessionKey" /\ resp.first = resp.second) =>
    /\ call.first.query = call.second.query
    /\ IsPermutation(call.first.terms, call.second.terms)



-----------------------------------------------------------------------------
(* A guest only narrows a search *)

\* The document id of a result: "<folderName>:<segmentIndex>".
RefOf(result) ==
  Corpus[result.episode].folderName \o <<":">> \o NumberToString(result.segment - 1)

\* The documents the engine matches for the query text alone (for its escaped form
\* when the engine rejects the text).
MatchesAlone(query) ==
  LET plain == lunrSearch(query)
      hits == IF plain.threw THEN lunrSearch(Escape(query)).results ELSE plain.results
  IN {hits[i].ref : i \in 1..Len(hits)}

\* C27: every segment a searchIndex call with a guest returns, under a limit above
\* the number of documents, is a segment the engine matches for the query alone:
\* the guest token and the post-filter never add a hit.
C27_GuestOnlyNarrows ==
  (IsSearch /\ Truthy(call.guest) /\ ~call.limit.has) =>
    \A i \in 1..Len(resp.results) : RefOf(resp.results[i]) \in MatchesAlone(call.query)


-----------------------------------------------------------------------------
(* The index is built once per process *)

\* C28: in the HTTP wrapper loadAllTranscripts and buildSearchIndex are each
\* executed at most once, and every request answered with results is answered
\* from the same index, also when requests arrive while a load is under way.
C28_BuiltOnce ==
  server.entry = "wrapper" =>
    /\ server.loads <= 1
    /\ server.builds <= 1
    /\ \A i, j \in 1..Len(server.served) : server.served[i] = server.served[j]


-----------------------------------------------------------------------------
(* Heading lines *)

\* A markdown heading line: after trimming, the line starts with '#'.
IsHeadingLine(l) == Trim(l) # <<>> /\ Head(Trim(l)) = "#"

\* C29: a line that starts with '#' after trimming is skipped entirely by
\* parseTranscriptBody: the turn of the loop that takes it leaves the segments,
\* the pending text, the current speaker and the current timestamp as they are,
\* also when the rest of the line has the shape of a header.
C29_HeadingsSkipped ==
  [][(parser.pc = "lines" /\ parser.lines # <<>> /\ IsHeadingLine(Head(parser.lines)))
       => parser' = [parser EXCEPT !.lines = Tail(@)]]_vars


-----------------------------------------------------------------------------
(* The segments of a body, line by line *)

\* Line i of the body is a header: not a heading line, and it ends with a
\* timestamp in parentheses; a speaker header has a name before the parenthesis.
HeaderAt(i) ==
  /\ ~IsHeadingLine(BodyLines[i])
  /\ MatchTimestampAtEnd(Trim(BodyLines[i])).matched

SpeakerHeaderAt(i) ==
  HeaderAt(i) /\ MatchTimestampAtEnd(Trim(BodyLines[i])).before # <<>>

\* Line i of the body is a content line: not blank, not a heading, not a header.
ContentAt(i) ==
  /\ Trim(BodyLines[i]) # <<>>
  /\ ~IsHeadingLine(BodyLines[i])
  /\ ~HeaderAt(i)

\* The greatest element of a set of line numbers, 0 for the empty set.
Latest(S) == IF S = {} THEN 0 ELSE CHOOSE i \in S : \A o \in S : o <= i

\* The header a content line belongs to: the latest header before it, 0 if none.
HeaderOf(j) == Latest({i \in 1..(j - 1) : HeaderAt(i)})

\* The headers that have content (0: the content before the first header), in
\* the order of the body.
RECURSIVE Ascending(_)
Ascending(S) ==
  IF S = {} THEN <<>>
  ELSE LET least == CHOOSE i \in S : \A o \in S : i <= o
       IN <<least>> \o Ascending(S \ {least})

ContentHeaders == Ascending({HeaderOf(j) : j \in {i \in 1..Len(BodyLines) : ContentAt(i)}})

\* hours * 3600 + minutes * 60 + seconds of "h:mm:ss" or "hh:mm:ss".
SecondsOf(timestamp) ==
  LET t == IF Len(timestamp) = 7 THEN <<"0">> \o timestamp ELSE timestamp
      two(k) == 10 * (Code(t[k]) - 48) + (Code(t[k + 1]) - 48)
  IN two(1) * 3600 + two(4) * 60 + two(7)

\* The segment of the content that belongs to header h.
SegmentOf(h) ==
  LET content == SelectSeq([i \in 1..Len(BodyLines) |-> i],
                           LAMBDA j : ContentAt(j) /\ HeaderOf(j) = h)
      said == Latest({i \in 1..h : SpeakerHeaderAt(i)})
      timestamp == IF h = 0 THEN T_00
                   ELSE MatchTimestampAtEnd(Trim(BodyLines[h])).timestamp
  IN Seg(IF said = 0 THEN W_Unknown
         ELSE Trim(MatchTimestampAtEnd(Trim(BodyLines[said])).before),
         timestamp, SecondsOf(timestamp),
         Join([k \in 1..Len(content) |-> Trim(BodyLines[content[k]])], <<" ">>))

\* C30: parseTranscriptBody returns, in the order of the body, one segment for
\* each header with content (and one for content before the first header): its
\* text is its content lines joined by single spaces and is not empty, its speaker
\* is that of the latest speaker header before the content ("Unknown" if none),
\* its timestamp that of the latest header of either kind ("00:00:00" if none),
\* its timestampSeconds hours*3600 + minutes*60 + seconds; no segment is empty.
C30_SegmentsAsDescribed ==
  parser.pc = "returned" =>
    /\ parser.segments = [k \in 1..Len(ContentHeaders) |-> SegmentOf(ContentHeaders[k])]
    /\ \A k \in 1..Len(parser.segments) : parser.segments[k].text # <<>>

====
